---- MODULE Spec2Model ----
(***************************************************************************)
(* GlovoAdmin: a browser-resident admin panel.  Every page loads an array  *)
(* of records from localStorage, filters / sorts / paginates it in memory, *)
(* renders a table, and mutates the array through handlers that write it   *)
(* back.  The model keeps the JavaScript values the handlers compute with  *)
(* (numbers, strings, NaN, null, undefined, booleans) as tagged records,   *)
(* and strings as sequences of one-character strings, so that parseInt,    *)
(* toLowerCase, includes, JSON.stringify and the relational operators are  *)
(* computed rather than assumed.                                           *)
(***************************************************************************)
EXTENDS Integers, Sequences, FiniteSets, TLC

(***************************************************************************)
(* JavaScript values                                                       *)
(***************************************************************************)
N(n)  == [t |-> "num", v |-> n]
S(s)  == [t |-> "str", v |-> s]
B(b)  == [t |-> "bool", v |-> b]
NaN   == [t |-> "nan", v |-> 0]
Null  == [t |-> "null", v |-> 0]
Undef == [t |-> "undef", v |-> 0]

\* The characters of the model's strings, in UTF-16 code-unit order.
Chars ==
    << " ", "0", "1", "2", "3", "4", "5", "6", "7", "8", "9",
       "A", "B", "C", "D", "E", "F", "G", "H", "I", "J", "K", "L", "M",
       "N", "O", "P", "Q", "R", "S", "T", "U", "V", "W", "X", "Y", "Z",
       "a", "b", "c", "d", "e", "f", "g", "h", "i", "j", "k", "l", "m",
       "n", "o", "p", "q", "r", "s", "t", "u", "v", "w", "x", "y", "z",
       "É", "é" >>

CharSet ==
    LET Range(chars) == {chars[i] : i \in DOMAIN chars}
    IN  Range(Chars)

CodeOf ==
    LET Index(chars) ==
            [c \in {chars[i] : i \in DOMAIN chars} |->
                CHOOSE i \in DOMAIN chars : chars[i] = c]
    IN  Index(Chars)

Digits == <<"0", "1", "2", "3", "4", "5", "6", "7", "8", "9">>

IsDigit(c) == \E i \in DOMAIN Digits : Digits[i] = c

DigitVal(c) == (CHOOSE i \in DOMAIN Digits : Digits[i] = c) - 1

\* String.prototype.toLowerCase, one character and a whole string.
LowerOf ==
    LET Shift(code, chars) ==
            [c \in DOMAIN code |->
                IF code[c] >= code["A"] /\ code[c] <= code["Z"]
                THEN chars[code[c] + (code["a"] - code["A"])]
                ELSE IF c = "É" THEN "é" ELSE c]
    IN  Shift(CodeOf, Chars)

toLowerCase(s) == [i \in 1..Len(s) |-> LowerOf[s[i]]]

\* String.prototype.includes.
includes(s, sub) ==
    \E i \in 0..(Len(s) - Len(sub)) : SubSeq(s, i + 1, i + Len(sub)) = sub

\* The relational operator < on two strings: code units, left to right.
RECURSIVE StrLess(_, _)
StrLess(a, b) ==
    IF b = <<>> THEN FALSE
    ELSE IF a = <<>> THEN TRUE
    ELSE IF Head(a) = Head(b) THEN StrLess(Tail(a), Tail(b))
    ELSE LET Before(code) == code[Head(a)] < code[Head(b)]
         IN  Before(CodeOf)

\* The longest prefix of decimal digits of a string.
RECURSIVE DigitPrefix(_)
DigitPrefix(s) ==
    IF s = <<>> \/ ~IsDigit(Head(s)) THEN <<>>
    ELSE <<Head(s)>> \o DigitPrefix(Tail(s))

RECURSIVE DigitsValue(_)
DigitsValue(s) ==
    IF s = <<>> THEN 0
    ELSE 10 * DigitsValue(SubSeq(s, 1, Len(s) - 1)) + DigitVal(s[Len(s)])

\* Number.prototype.toString of a non-negative integer.
RECURSIVE NumToString(_)
NumToString(n) ==
    IF n < 10 THEN <<Digits[n + 1]>>
    ELSE NumToString(n \div 10) \o <<Digits[(n % 10) + 1]>>

\* String(x) of the values that reach parseInt / parseFloat / toString.
ToStringJS(x) ==
    CASE x.t = "str"   -> x.v
      [] x.t = "num"   -> NumToString(x.v)
      [] x.t = "bool"  -> IF x.v THEN <<"t", "r", "u", "e">>
                                 ELSE <<"f", "a", "l", "s", "e">>
      [] x.t = "nan"   -> <<"N", "a", "N">>
      [] x.t = "null"  -> <<"n", "u", "l", "l">>
      [] x.t = "undef" -> <<"u", "n", "d", "e", "f", "i", "n", "e", "d">>

\* parseInt(x, 10) and parseFloat(x): the strings of the model carry no sign,
\* point or exponent, so both read the leading digits.
parseInt(x) ==
    LET p == DigitPrefix(ToStringJS(x))
    IN  IF p = <<>> THEN NaN ELSE N(DigitsValue(p))

parseFloat(x) == parseInt(x)

\* ToNumber, as isNaN and the relational operators apply it.
ToNumber(x) ==
    CASE x.t = "num"   -> x
      [] x.t = "str"   -> IF x.v = <<>> THEN N(0)
                          ELSE IF DigitPrefix(x.v) = x.v THEN N(DigitsValue(x.v))
                          ELSE NaN
      [] x.t = "bool"  -> IF x.v THEN N(1) ELSE N(0)
      [] x.t = "null"  -> N(0)
      [] x.t = "nan"   -> NaN
      [] x.t = "undef" -> NaN

isNaN(x) == ToNumber(x) = NaN

\* ToBoolean, as !x and x || y apply it.
Truthy(x) ==
    CASE x.t = "num"   -> x.v # 0
      [] x.t = "str"   -> x.v # <<>>
      [] x.t = "bool"  -> x.v
      [] x.t = "nan"   -> FALSE
      [] x.t = "null"  -> FALSE
      [] x.t = "undef" -> FALSE

\* x < y: two strings compare as strings, anything else as numbers, and a
\* comparison with NaN is false.
LessJS(x, y) ==
    IF x.t = "str" /\ y.t = "str" THEN StrLess(x.v, y.v)
    ELSE LET a == ToNumber(x)
             b == ToNumber(y)
         IN  a # NaN /\ b # NaN /\ a.v < b.v

\* x === y on the values of the model.
StrictEq(x, y) == x.t # "nan" /\ x = y

\* x == y: a number and a numeric string are equal, null equals undefined.
LooseEq(x, y) ==
    IF x.t = y.t THEN StrictEq(x, y)
    ELSE IF {x.t, y.t} = {"null", "undef"} THEN TRUE
    ELSE IF {x.t, y.t} = {"num", "str"}
         THEN ToNumber(x) # NaN /\ ToNumber(x) = ToNumber(y)
    ELSE FALSE

\* obj[field], undefined when the field is missing.
Get(obj, field) == IF field \in DOMAIN obj THEN obj[field] ELSE Undef

\* { ...a, ...b }
Spread(a, b) ==
    [f \in DOMAIN a \cup DOMAIN b |-> IF f \in DOMAIN b THEN b[f] ELSE a[f]]

\* JSON.parse(JSON.stringify(obj)) of a flat record: a field holding
\* undefined is dropped and NaN is written as null.
JsonRecord(obj) ==
    [f \in {g \in DOMAIN obj : obj[g].t # "undef"} |->
        IF obj[f].t = "nan" THEN Null ELSE obj[f]]

JsonArray(arr) == [i \in 1..Len(arr) |-> JsonRecord(arr[i])]

(***************************************************************************)
(* String literals of the source, and the short texts that stand for names *)
(***************************************************************************)
Empty == <<>>

\* The texts of initSampleData's records (long names shortened).
Sample ==
    [ Livree      |-> <<"L","i","v","r","é","e">>,
      EnAttente   |-> <<"E","n"," ","a","t","t","e","n","t","e">>,
      Annulee     |-> <<"A","n","n","u","l","é","e">>,
      Payee       |-> <<"P","a","y","é","e">>,
      Pizza       |-> <<"P","i","z","z","a">>,
      Burger      |-> <<"B","u","r","g","e","r">>,
      Roma        |-> <<"R","o","m","a">>,
      Paris       |-> <<"P","a","r","i","s">>,
      Lyon        |-> <<"L","y","o","n">>,
      Particulier |-> <<"P","a","r","t">>,
      Entreprise  |-> <<"E","n","t","r">>,
      Admin       |-> <<"A","d","m","i","n">>,
      Livreur     |-> <<"L","i","v","r","e","u","r">>,
      Actif       |-> <<"A","c","t","i","f">>,
      Inactif     |-> <<"I","n","a","c","t","i","f">>,
      Marie       |-> <<"M","a","r","i","e">>,
      Sophie      |-> <<"S","o","p","h","i","e">>,
      Jean        |-> <<"J","e","a","n">>,
      MarieMail   |-> <<"m","a","r","i","e">>,
      SophieMail  |-> <<"s","o","p","h","i","e">>,
      JeanMail    |-> <<"j","e","a","n">>,
      Phone       |-> <<"0","6">>,
      Rue         |-> <<"R","u","e">>,
      SeedDate    |-> <<"2","0","2","4">> ]

\* The texts typed into the forms, the search box and the rows-per-page select.
Typed ==
    [ One         |-> <<"1">>,
      Two         |-> <<"2">>,
      Three       |-> <<"3">>,
      Twenty      |-> <<"2","0">>,
      Zero        |-> <<"0">>,
      Blank       |-> <<" ">>,
      PizzaLower  |-> <<"p","i","z","z","a">>,
      Piz         |-> <<"p","i","z">>,
      PizUpper    |-> <<"P","I","Z">>,
      Ma          |-> <<"m","a">> ]

\* The texts the handlers of orders.js and products.js compare with or store.
Literal ==
    [ ClientInconnu |-> <<"C","l","i","e","n","t"," ","i","n","c","o","n","n","u">>,
      Disponible    |-> <<"D","i","s","p","o","n","i","b","l","e">>,
      TrueText      |-> <<"t","r","u","e">>,
      FalseText     |-> <<"f","a","l","s","e">>,
      Password      |-> <<"a","d","m","i","n","1","2","3">> ]

\* The e-mail and the role of the demo user.
AdminMail == <<"a","d","m","i","n">>
AdminRole == <<"a","d","m","i","n">>

Today         == <<"2","0","2","6">>

Keys == {"users", "products", "clients", "orders", "deliveries"}
Pages == Keys

\* Bounds of the model: the longest array handed to a pipeline function on
\* its own, the largest id a create may allocate or a delete may name, and
\* the last page the pagination buttons may lead to.
MaxLen == 5
MaxId == 2
MaxPage == 4

Ids == 1..MaxId

(***************************************************************************)
(* The demo data initSampleData writes, cut to two records a collection.   *)
(***************************************************************************)
SeedUsers ==
    << [id |-> N(1), name |-> S(Sample.Admin), email |-> S(Sample.MarieMail), role |-> S(Sample.Admin),
        status |-> S(Sample.Actif), createdAt |-> S(Sample.SeedDate)],
       [id |-> N(2), name |-> S(Sample.Jean), email |-> S(Sample.JeanMail), role |-> S(Sample.Livreur),
        status |-> S(Sample.Actif), createdAt |-> S(Sample.SeedDate)] >>

SeedProducts ==
    << [id |-> N(1), name |-> S(Sample.Pizza), category |-> S(Sample.Pizza), price |-> N(12),
        stock |-> N(50), supplier |-> S(Sample.Roma), available |-> B(TRUE)],
       [id |-> N(2), name |-> S(Sample.Burger), category |-> S(Sample.Burger), price |-> N(9),
        stock |-> N(0), supplier |-> S(Sample.Roma), available |-> B(FALSE)] >>

SeedClients ==
    << [id |-> N(1), name |-> S(Sample.Marie), email |-> S(Sample.MarieMail), phone |-> S(Sample.Phone),
        address |-> S(Sample.Rue), city |-> S(Sample.Paris), type |-> S(Sample.Particulier),
        createdAt |-> S(Sample.SeedDate)],
       [id |-> N(2), name |-> S(Sample.Sophie), email |-> S(Sample.SophieMail), phone |-> S(Sample.Phone),
        address |-> S(Sample.Rue), city |-> S(Sample.Lyon), type |-> S(Sample.Entreprise),
        createdAt |-> S(Sample.SeedDate)] >>

SeedOrders ==
    << [id |-> N(1), clientId |-> N(1), clientName |-> S(Sample.Marie), products |-> S(Sample.Pizza),
        quantity |-> N(2), amount |-> N(25), status |-> S(Sample.Livree),
        paymentStatus |-> S(Sample.Payee), address |-> S(Sample.Rue), createdAt |-> S(Sample.SeedDate)],
       [id |-> N(2), clientId |-> N(2), clientName |-> S(Sample.Sophie), products |-> S(Sample.Burger),
        quantity |-> N(1), amount |-> N(11), status |-> S(Sample.Annulee),
        paymentStatus |-> S(Sample.Payee), address |-> S(Sample.Rue), createdAt |-> S(Sample.SeedDate)] >>

SeedDeliveries ==
    << [id |-> N(1), orderId |-> N(1), driver |-> S(Sample.Jean), address |-> S(Sample.Rue),
        status |-> S(Sample.Livree), duration |-> N(25), notes |-> S(Empty),
        createdAt |-> S(Sample.SeedDate)],
       [id |-> N(2), orderId |-> N(2), driver |-> S(Sample.Jean), address |-> S(Sample.Rue),
        status |-> S(Sample.EnAttente), duration |-> N(30), notes |-> S(Empty),
        createdAt |-> S(Sample.SeedDate)] >>

SampleData(key) ==
    CASE key = "users"      -> SeedUsers
      [] key = "products"   -> SeedProducts
      [] key = "clients"    -> SeedClients
      [] key = "orders"     -> SeedOrders
      [] key = "deliveries" -> SeedDeliveries

(***************************************************************************)
(* State                                                                   *)
(***************************************************************************)
VARIABLES
    localStorage,   \* key -> [has, arr]: the JSON array stored under the key
    page,           \* the page whose script is loaded
    currentPage,    \* page-level variables of orders.js / products.js
    itemsPerPage,
    currentSort,
    editingId,
    deleteId,
    dom,            \* element id -> value: inputs, hidden fields, modal classes
    view,           \* what the last render wrote: table rows and pagination
    lastOp,         \* the handler that ran last, its toast and its outcome
    headerSort,     \* the sort state initTableSorting keeps in its closure
    timeout,        \* the timer debounce holds: pending or not
    user,           \* the localStorage entry 'user'
    currentUserRole,\* window.currentUserRole
    call,           \* the arguments of a pipeline function called on its own
    ret             \* and what it returned

vars == << localStorage, page, currentPage, itemsPerPage, currentSort,
           editingId, deleteId, dom, view, lastOp, headerSort, timeout, user,
           currentUserRole, call, ret >>

\* localStorage.getItem(key) parsed: script.js returns null for a missing key,
\* the page scripts of clients, users and deliveries return [] for it.
\* getData(key) || [] (script.js), getData(key) (clients.js and the like).
getData(ls, key) == IF ls[key].has THEN ls[key].arr ELSE <<>>

\* setData / saveData: JSON.stringify, then localStorage.setItem.
\* A write that would keep the records stored since the array was read, and
\* add to them the records of the array that are not stored.
setDataMerged(ls, key, data) ==
    LET stored == IF ls[key].has THEN ls[key].arr ELSE <<>>
        IsNew(record) == \A i \in 1..Len(stored) : stored[i] # record
    IN  [ls EXCEPT ![key] = [has |-> TRUE, arr |-> stored \o SelectSeq(data, IsNew)]]

\* A write of the clients that would also drop the orders whose client is no
\* longer among them (a cascade).
setDataCascade(ls, key, data) ==
    LET HasClient(order) == \E i \in 1..Len(data) : data[i].id = order.clientId
        Cascade(k) == IF key = "clients" /\ k = "orders"
                      THEN [ls[k] EXCEPT !.arr = SelectSeq(ls[k].arr, HasClient)]
                      ELSE ls[k]
    IN  [ k \in DOMAIN ls |-> IF k = key THEN [has |-> TRUE, arr |-> JsonArray(data)]
                              ELSE Cascade(k) ]

setData(ls, key, data) ==
    [ls EXCEPT ![key] = [has |-> TRUE, arr |-> JsonArray(data)]]

RECURSIVE MaxOf(_)
MaxOf(seq) ==
    IF Len(seq) = 1 THEN seq[1]
    ELSE LET m == MaxOf(Tail(seq)) IN IF seq[1] > m THEN seq[1] ELSE m

\* generateId as it would be if it counted the records instead of taking the
\* largest id.
generateIdByLength(ls, dataKey) == N(Len(getData(ls, dataKey)) + 1)

generateId(ls, dataKey) ==
    LET data == getData(ls, dataKey)
    IN  IF Len(data) > 0
        THEN N(MaxOf([i \in 1..Len(data) |-> data[i].id.v]) + 1)
        ELSE N(1)

\* Array.prototype.findIndex with the given test, 0 for the source's -1.
FindIndex(data, Test(_)) ==
    IF \E i \in 1..Len(data) : Test(data[i])
    THEN CHOOSE i \in 1..Len(data) :
            Test(data[i]) /\ \A j \in 1..(i - 1) : ~Test(data[j])
    ELSE 0

\* Array.prototype.filter.
Filter(data, Test(_)) == SelectSeq(data, Test)

IdsOf(data) == {data[i].id : i \in 1..Len(data)}

(***************************************************************************)
(* The query pipeline: applyFilters, sortData, slice, createPagination     *)
(***************************************************************************)
\* The test of orders.js as it would be if the fields were searched as stored,
\* without toLowerCase.
ordersMatchAsStored(item, searchInput, statusFilter, paymentFilter) ==
    LET searchTerm == toLowerCase(searchInput)
        matchesSearch ==
            \/ searchTerm = <<>>
            \/ includes(item.clientName.v, searchTerm)
            \/ includes(item.products.v, searchTerm)
            \/ includes(ToStringJS(item.id), searchTerm)
        matchesStatus == statusFilter = <<>> \/ StrictEq(Get(item, "status"), S(statusFilter))
        matchesPayment ==
            paymentFilter = <<>> \/ StrictEq(Get(item, "paymentStatus"), S(paymentFilter))
    IN  matchesSearch /\ matchesStatus /\ matchesPayment

\* applyFilters of orders.js: search over clientName, products and the id,
\* then the status and payment selects.
ordersMatch(item, searchInput, statusFilter, paymentFilter) ==
    LET searchTerm == toLowerCase(searchInput)
        matchesSearch ==
            \/ searchTerm = <<>>
            \/ includes(toLowerCase(item.clientName.v), searchTerm)
            \/ includes(toLowerCase(item.products.v), searchTerm)
            \/ includes(ToStringJS(item.id), searchTerm)
        matchesStatus == statusFilter = <<>> \/ StrictEq(Get(item, "status"), S(statusFilter))
        matchesPayment ==
            paymentFilter = <<>> \/ StrictEq(Get(item, "paymentStatus"), S(paymentFilter))
    IN  matchesSearch /\ matchesStatus /\ matchesPayment

applyFiltersOrders(data, d) ==
    LET Test(item) == ordersMatch(item, d["searchInput"].v, d["filterStatus"].v,
                                  d["filterPayment"].v)
    IN  Filter(data, Test)

\* applyFilters of products.js: search over name and supplier, then the
\* category and availability selects.
productsMatch(item, searchInput, categoryFilter, availabilityFilter) ==
    LET searchTerm == toLowerCase(searchInput)
        matchesSearch ==
            \/ searchTerm = <<>>
            \/ includes(toLowerCase(item.name.v), searchTerm)
            \/ includes(toLowerCase(item.supplier.v), searchTerm)
        matchesCategory ==
            categoryFilter = <<>> \/ StrictEq(Get(item, "category"), S(categoryFilter))
        matchesAvailability ==
            \/ availabilityFilter = <<>>
            \/ StrictEq(Get(item, "available"), B(availabilityFilter = Literal.TrueText))
    IN  matchesSearch /\ matchesCategory /\ matchesAvailability

applyFiltersProducts(data, d) ==
    LET Test(item) == productsMatch(item, d["searchInput"].v, d["filterCategory"].v,
                                    d["filterAvailability"].v)
    IN  Filter(data, Test)

\* (x || '') of the table filters of clients.js, users.js and deliveries.js.
OrEmpty(x) == IF Truthy(x) THEN x ELSE S(Empty)

\* The filter of renderClientsTable, renderUsersTable (name, email, two
\* selects) and of renderDeliveriesTable (address, orderId, two selects).
simpleMatch(item, searchInput, fieldA, fieldB, selA, filterA, selB, filterB) ==
    LET search == toLowerCase(searchInput)
        matchSearch ==
            \/ includes(toLowerCase(ToStringJS(OrEmpty(Get(item, fieldA)))), search)
            \/ includes(IF fieldB = "orderId"
                        THEN ToStringJS(OrEmpty(Get(item, fieldB)))
                        ELSE toLowerCase(ToStringJS(OrEmpty(Get(item, fieldB)))), search)
        matchA == filterA = <<>> \/ StrictEq(Get(item, selA), S(filterA))
        matchB == filterB = <<>> \/ StrictEq(Get(item, selB), S(filterB))
    IN  matchSearch /\ matchA /\ matchB

clientsMatch(client, search, cityFilter, typeFilter) ==
    simpleMatch(client, search, "name", "email", "city", cityFilter, "type", typeFilter)

usersMatch(u, search, roleFilter, statusFilter) ==
    simpleMatch(u, search, "name", "email", "role", roleFilter, "status", statusFilter)

deliveriesMatch(delivery, search, statusFilter, driverFilter) ==
    simpleMatch(delivery, search, "address", "orderId", "status", statusFilter,
                "driver", driverFilter)

\* The comparator sortData hands to Array.prototype.sort.
sortCompare(a, b, column, direction) ==
    LET Order(valA, valB) ==
            IF LessJS(valA, valB) THEN (IF direction = "asc" THEN -1 ELSE 1)
            ELSE IF LessJS(valB, valA) THEN (IF direction = "asc" THEN 1 ELSE -1)
            ELSE 0
        Lowered(val) == IF val.t = "str" THEN S(toLowerCase(val.v)) ELSE val
        Parsed(val, numeric) == Lowered(IF numeric THEN parseFloat(val) ELSE val)
        Compare(valA, valB, numeric) == Order(Parsed(valA, numeric), Parsed(valB, numeric))
        Values(valA, valB) == Compare(valA, valB, ~isNaN(valA) /\ ~isNaN(valB))
    IN  Values(Get(a, column), Get(b, column))

\* Array.prototype.sort is stable for a consistent comparator, and which
\* comparisons it makes is left to the engine.  Three algorithms engines use
\* stand for that choice: insertion from the right, bottom-up merging of
\* runs, and the binary insertion after a leading run that TimSort applies
\* to short arrays.
Engines == {"insertion", "merge", "binary"}

RECURSIVE InsertSorted(_, _, _, _)
InsertSorted(sorted, item, column, direction) ==
    IF sorted = <<>> THEN <<item>>
    ELSE IF sortCompare(sorted[Len(sorted)], item, column, direction) > 0
         THEN InsertSorted(SubSeq(sorted, 1, Len(sorted) - 1), item, column, direction)
              \o <<sorted[Len(sorted)]>>
         ELSE sorted \o <<item>>

RECURSIVE InsertionSort(_, _, _)
InsertionSort(data, column, direction) ==
    IF data = <<>> THEN <<>>
    ELSE InsertSorted(InsertionSort(SubSeq(data, 1, Len(data) - 1), column, direction),
                      data[Len(data)], column, direction)

RECURSIVE MergeRuns(_, _, _, _)
MergeRuns(left, right, column, direction) ==
    IF right # <<>> /\ (left = <<>> \/ sortCompare(Head(right), Head(left), column, direction) < 0)
    THEN <<Head(right)>> \o MergeRuns(left, Tail(right), column, direction)
    ELSE IF left # <<>>
         THEN <<Head(left)>> \o MergeRuns(Tail(left), right, column, direction)
         ELSE <<>>

RECURSIVE MergePass(_, _, _)
MergePass(runs, column, direction) ==
    IF Len(runs) <= 1 THEN runs
    ELSE <<MergeRuns(runs[1], runs[2], column, direction)>>
         \o MergePass(SubSeq(runs, 3, Len(runs)), column, direction)

RECURSIVE MergeSort(_, _, _)
MergeSort(runs, column, direction) ==
    IF runs = <<>> THEN <<>>
    ELSE IF Len(runs) = 1 THEN runs[1]
    ELSE MergeSort(MergePass(runs, column, direction), column, direction)

\* The length of the leading run: k records are in it, the next is compared
\* with the last of them.
RECURSIVE CountRun(_, _, _, _, _)
CountRun(data, k, descending, column, direction) ==
    IF k >= Len(data) THEN k
    ELSE LET order == sortCompare(data[k + 1], data[k], column, direction)
         IN  IF (descending /\ order >= 0) \/ (~descending /\ order < 0)
             THEN k
             ELSE CountRun(data, k + 1, descending, column, direction)

Reverse(data) == [i \in 1..Len(data) |-> data[Len(data) + 1 - i]]

\* The place of pivot among data[left+1 .. right], found by halving.
RECURSIVE BinarySearch(_, _, _, _, _, _)
BinarySearch(data, pivot, left, right, column, direction) ==
    IF left >= right THEN left
    ELSE LET mid == left + ((right - left) \div 2)
         IN  IF sortCompare(pivot, data[mid + 1], column, direction) < 0
             THEN BinarySearch(data, pivot, left, mid, column, direction)
             ELSE BinarySearch(data, pivot, mid + 1, right, column, direction)

\* The first start records are in order; the others are inserted one by one.
RECURSIVE BinaryInsertion(_, _, _, _)
BinaryInsertion(data, start, column, direction) ==
    IF start >= Len(data) THEN data
    ELSE LET Place(pivot, left) ==
                 SubSeq(data, 1, left) \o <<pivot>> \o
                     SubSeq(data, left + 1, start) \o
                     SubSeq(data, start + 2, Len(data))
         IN  BinaryInsertion(
                 Place(data[start + 1],
                       BinarySearch(data, data[start + 1], 0, start, column, direction)),
                 start + 1, column, direction)

BinarySort(data, column, direction) ==
    IF Len(data) < 2 THEN data
    ELSE LET Insert(descending, run) ==
                 BinaryInsertion(IF descending
                                 THEN Reverse(SubSeq(data, 1, run)) \o
                                          SubSeq(data, run + 1, Len(data))
                                 ELSE data,
                                 run, column, direction)
             Run(descending) ==
                 Insert(descending, CountRun(data, 2, descending, column, direction))
         IN  Run(sortCompare(data[2], data[1], column, direction) < 0)

ArraySort(eng, data, column, direction) ==
    CASE eng = "insertion" -> InsertionSort(data, column, direction)
      [] eng = "merge" ->
            MergeSort([i \in 1..Len(data) |-> <<data[i]>>], column, direction)
      [] eng = "binary" -> BinarySort(data, column, direction)

\* sortData: a copy of the array, sorted.
sortData(eng, data, column, direction) == ArraySort(eng, data, column, direction)

\* data.sort(...): Array.prototype.sort reorders the array it is called on and
\* returns that same array.
sortInPlace(eng, data, column, direction) ==
    LET Both(sorted) == [ data |-> sorted, return |-> sorted ]
    IN  Both(ArraySort(eng, data, column, direction))

\* The caller's array and the returned array once sortData has returned:
\* sort is called on the copy [...data], so the argument keeps its records.
sortDataArrays(eng, data, column, direction) ==
    [ data |-> data, return |-> sortData(eng, data, column, direction) ]

\* Array.prototype.slice(start, end).
Slice(data, start, end) ==
    LET len == Len(data)
        from == IF start < 0 THEN (IF len + start < 0 THEN 0 ELSE len + start)
                ELSE (IF start > len THEN len ELSE start)
        to == IF end < 0 THEN (IF len + end < 0 THEN 0 ELSE len + end)
              ELSE (IF end > len THEN len ELSE end)
    IN  SubSeq(data, from + 1, to)

Min(a, b) == IF a < b THEN a ELSE b

Max(a, b) == IF a > b THEN a ELSE b

\* Math.ceil(a / b) for a >= 0, b > 0.
Ceil(a, b) == (a + b - 1) \div b

maxVisiblePages == 5

\* createPagination: what it renders, as a record.
createPaginationFromStart(totalItems, cur, perPage) ==
    LET totalPages == Ceil(totalItems, perPage)
        startPage == Max(1, cur - (maxVisiblePages \div 2))
        endPage == Min(totalPages, startPage + maxVisiblePages - 1)
    IN  [ totalPages |-> totalPages,
          currentPage |-> cur,
          prevDisabled |-> (cur = 1),
          nextDisabled |-> (cur = totalPages \/ totalPages = 0),
          startPage |-> startPage,
          endPage |-> endPage,
          infoStart |-> IF totalItems = 0 THEN 0 ELSE (cur - 1) * perPage + 1,
          infoEnd |-> Min(cur * perPage, totalItems) ]

createPagination(totalItems, cur, perPage) ==
    LET totalPages == Ceil(totalItems, perPage)
        start0 == Max(1, cur - (maxVisiblePages \div 2))
        endPage == Min(totalPages, start0 + maxVisiblePages - 1)
        startPage == IF endPage - start0 + 1 < maxVisiblePages
                     THEN Max(1, endPage - maxVisiblePages + 1)
                     ELSE start0
    IN  [ totalPages |-> totalPages,
          currentPage |-> cur,
          prevDisabled |-> (cur = 1),
          nextDisabled |-> (cur = totalPages \/ totalPages = 0),
          startPage |-> startPage,
          endPage |-> endPage,
          infoStart |-> IF totalItems = 0 THEN 0 ELSE (cur - 1) * perPage + 1,
          infoEnd |-> Min(cur * perPage, totalItems) ]

\* renderTable as it would be if it brought a page number beyond the last page
\* back to the last page.
renderTableClamped(pg, ls, eng, cur, perPage, sort, d) ==
    LET data0 == getData(ls, pg)
        data1 == IF pg = "orders" THEN applyFiltersOrders(data0, d)
                 ELSE applyFiltersProducts(data0, d)
        data2 == IF sort.column # "" THEN sortData(eng, data1, sort.column, sort.direction)
                 ELSE data1
        totalItems == Len(data2)
        shown == Max(1, Min(cur, Ceil(totalItems, perPage)))
        startIndex == (shown - 1) * perPage
    IN  [ tableBody |-> Slice(data2, startIndex, startIndex + perPage),
          totalItems |-> totalItems,
          pagination |-> createPagination(totalItems, shown, perPage) ]

\* renderTable as it would be if it cut the page out of the stored array
\* first and filtered and sorted the page, counting the stored records.
renderTablePageFirst(pg, ls, eng, cur, perPage, sort, d) ==
    LET data0 == getData(ls, pg)
        startIndex == (cur - 1) * perPage
        data1 == Slice(data0, startIndex, startIndex + perPage)
        data2 == IF pg = "orders" THEN applyFiltersOrders(data1, d)
                 ELSE applyFiltersProducts(data1, d)
        data3 == IF sort.column # "" THEN sortData(eng, data2, sort.column, sort.direction)
                 ELSE data2
    IN  [ tableBody |-> data3,
          totalItems |-> Len(data0),
          pagination |-> createPagination(Len(data0), cur, perPage) ]

\* renderTable of orders.js and products.js: filter, sort, slice, then the
\* pagination controls.
renderTable(pg, ls, eng, cur, perPage, sort, d) ==
    LET Paginated(data, startIndex) ==
            [ tableBody |-> Slice(data, startIndex, startIndex + perPage),
              totalItems |-> Len(data),
              pagination |-> createPagination(Len(data), cur, perPage) ]
        Sorted(data) ==
            Paginated(IF sort.column # ""
                      THEN sortData(eng, data, sort.column, sort.direction)
                      ELSE data,
                      (cur - 1) * perPage)
        Filtered(data) ==
            Sorted(IF pg = "orders" THEN applyFiltersOrders(data, d)
                   ELSE applyFiltersProducts(data, d))
    IN  Filtered(getData(ls, pg))

\* The pagination element of a page that never calls createPagination.
NoPagination ==
    [ totalPages |-> 0, currentPage |-> 0, prevDisabled |-> TRUE, nextDisabled |-> TRUE,
      startPage |-> 0, endPage |-> 0, infoStart |-> 0, infoEnd |-> 0 ]

\* renderClientsTable, renderUsersTable, renderDeliveriesTable: the filtered
\* rows and their count, no sort and no pages.
applyFiltersSimple(pg, data, d) ==
    LET Test(item) ==
            CASE pg = "clients" ->
                    clientsMatch(item, d["searchInput"].v, d["filterCity"].v, d["filterType"].v)
              [] pg = "users" ->
                    usersMatch(item, d["searchInput"].v, d["filterRole"].v, d["filterStatus"].v)
              [] pg = "deliveries" ->
                    deliveriesMatch(item, d["searchInput"].v, d["filterStatus"].v,
                                    d["filterDriver"].v)
    IN  Filter(data, Test)

renderSimple(pg, ls, d) ==
    LET Rows(filtered) ==
            [ tableBody |-> filtered,
              totalItems |-> Len(filtered),
              pagination |-> NoPagination ]
    IN  Rows(applyFiltersSimple(pg, getData(ls, pg), d))

Paged(pg) == pg \in {"orders", "products"}

render(pg, ls, eng, cur, perPage, sort, d) ==
    IF Paged(pg) THEN renderTable(pg, ls, eng, cur, perPage, sort, d)
    ELSE renderSimple(pg, ls, d)

(***************************************************************************)
(* What a user can put in the forms (the values of the form's elements)    *)
(***************************************************************************)

OrderForms ==
    LET OrderForm(client, product, amount, status) ==
            [ client |-> S(client), product |-> S(product), quantity |-> S(Typed.One),
              amount |-> S(amount), status |-> S(status), payment |-> S(Sample.Payee),
              address |-> S(Sample.Rue), notes |-> S(Empty) ]
    IN  { OrderForm(Typed.One, Sample.Pizza, Typed.Twenty, Sample.Livree),
          OrderForm(Typed.Three, Sample.Burger, Typed.Twenty, Sample.Annulee),
          OrderForm(Empty, Sample.Pizza, Typed.Twenty, Sample.Livree),
          OrderForm(Typed.One, Empty, Typed.Twenty, Sample.Livree),
          OrderForm(Typed.One, Sample.Pizza, Empty, Sample.Livree),
          OrderForm(Typed.One, Sample.Pizza, Typed.Zero, Sample.Livree) }

ProductForms ==
    LET ProductForm(name, category, price, stock) ==
            [ name |-> S(name), category |-> S(category), price |-> S(price),
              stock |-> S(stock), supplier |-> S(Sample.Roma),
              availability |-> S(Literal.Disponible) ]
    IN  { ProductForm(Sample.Pizza, Sample.Pizza, Typed.Twenty, Typed.One),
          ProductForm(Sample.Burger, Sample.Burger, Typed.Zero, Empty),
          ProductForm(Typed.Blank, Sample.Pizza, Typed.Twenty, Typed.One),
          ProductForm(Sample.Pizza, Empty, Typed.Twenty, Typed.One),
          ProductForm(Sample.Pizza, Sample.Pizza, Empty, Typed.One) }

ClientForms ==
    LET ClientForm(name, city, orders) ==
            [ name |-> S(name), email |-> S(Sample.MarieMail), phone |-> S(Sample.Phone),
              type |-> S(Sample.Particulier), city |-> S(city), orders |-> S(orders),
              address |-> S(Sample.Rue) ]
    IN  { ClientForm(Sample.Marie, Sample.Paris, Empty),
          ClientForm(Sample.Jean, Sample.Lyon, Typed.Three) }

UserForms ==
    LET UserForm(name, role) ==
            [ name |-> S(name), email |-> S(Sample.JeanMail), role |-> S(role),
              status |-> S(Sample.Actif), phone |-> S(Sample.Phone) ]
    IN  { UserForm(Sample.Jean, Sample.Livreur), UserForm(Sample.Sophie, Sample.Admin) }

DeliveryForms ==
    LET DeliveryForm(orderId, status) ==
            [ orderId |-> S(orderId), driver |-> S(Sample.Jean), status |-> S(status),
              duration |-> S(Typed.Twenty), address |-> S(Sample.Rue), notes |-> S(Empty) ]
    IN  { DeliveryForm(Typed.One, Sample.Livree),
          DeliveryForm(Typed.Three, Sample.EnAttente) }

(***************************************************************************)
(* Handlers                                                                *)
(***************************************************************************)
\* What lastOp records of a handler run.
Ran(name, toast, gen, threw) ==
    [ name |-> name, toast |-> toast, gen |-> gen, threw |-> threw ]

\* A create stays within the bounds of the model.
CanCreate(ls, key) == generateId(ls, key).v <= MaxId

\* classList.add('show') / classList.remove('show') on a modal overlay.
Show(d, overlay) == [d EXCEPT ![overlay] = B(TRUE)]

Hide(d, overlay) == [d EXCEPT ![overlay] = B(FALSE)]

\* String.prototype.trim.
RECURSIVE TrimLeft(_)
TrimLeft(s) == IF s # <<>> /\ Head(s) = " " THEN TrimLeft(Tail(s)) ELSE s

RECURSIVE TrimRight(_)
TrimRight(s) ==
    IF s # <<>> /\ s[Len(s)] = " " THEN TrimRight(SubSeq(s, 1, Len(s) - 1)) ELSE s

trim(s) == TrimRight(TrimLeft(s))

\* The parts of the state no handler of a data page touches.
Untouched == UNCHANGED << page, user, currentUserRole, call, ret >>

\* The trailing renderTable() / renderClientsTable() ... of a handler.
Rendered ==
    view' \in { render(page, localStorage', eng, currentPage', itemsPerPage',
                       currentSort', dom') : eng \in Engines }

(***************************************************************************)
(* orders.js and products.js                                               *)
(***************************************************************************)
\* The record of the order form as it would be with an empty client name, and
\* no placeholder, for a client id that no client has.
orderFormDataBlankName(ls, f) ==
    LET clientId == parseInt(f.client)
        clients == getData(ls, "clients")
        IsClient(c) == StrictEq(c.id, clientId)
        client == FindIndex(clients, IsClient)
    IN  [ clientId |-> clientId,
          clientName |-> IF client # 0 THEN clients[client].name ELSE S(Empty),
          products |-> f.product,
          quantity |-> parseInt(f.quantity),
          amount |-> parseFloat(f.amount),
          status |-> f.status,
          paymentStatus |-> f.payment,
          address |-> f.address,
          notes |-> OrEmpty(f.notes) ]

\* The record handleFormSubmit of orders.js builds from the form.
orderFormData(ls, f) ==
    LET clientId == parseInt(f.client)
        clients == getData(ls, "clients")
        IsClient(c) == StrictEq(c.id, clientId)
        client == FindIndex(clients, IsClient)
    IN  [ clientId |-> clientId,
          clientName |-> IF client # 0 THEN clients[client].name ELSE S(Literal.ClientInconnu),
          products |-> f.product,
          quantity |-> parseInt(f.quantity),
          amount |-> parseFloat(f.amount),
          status |-> f.status,
          paymentStatus |-> f.payment,
          address |-> f.address,
          notes |-> OrEmpty(f.notes) ]

\* The validation of orders.js as it would be without the check of the amount.
orderInvalidNoAmount(formData) ==
    ~Truthy(formData.clientId) \/ ~Truthy(formData.products)

orderInvalid(formData) ==
    ~Truthy(formData.clientId) \/ ~Truthy(formData.products) \/ ~Truthy(formData.amount)

\* The record handleFormSubmit of products.js builds from the form.
productFormData(f) ==
    [ name |-> S(trim(f.name.v)),
      category |-> f.category,
      price |-> parseFloat(f.price),
      stock |-> parseInt(f.stock),
      supplier |-> S(trim(f.supplier.v)),
      available |-> B(f.availability.v = Literal.Disponible) ]

productInvalid(formData) ==
    ~Truthy(formData.name) \/ ~Truthy(formData.category) \/ isNaN(formData.price)

pagedFormData(pg, ls, f) ==
    IF pg = "orders" THEN orderFormData(ls, f) ELSE productFormData(f)

pagedInvalid(pg, formData) ==
    IF pg = "orders" THEN orderInvalid(formData) ELSE productInvalid(formData)

\* The fields a create adds to the form's record.
pagedCreated(pg, ls, formData) ==
    IF pg = "orders"
    THEN Spread(formData, [id |-> generateId(ls, "orders"), createdAt |-> S(Today)])
    ELSE Spread(formData, [id |-> generateId(ls, "products")])

\* The array handleFormSubmit writes back when the form is valid.
pagedSubmitData(pg, ls, editing, formData) ==
    LET data == getData(ls, pg)
        IsEdited(item) == StrictEq(item.id, editing)
        index == FindIndex(data, IsEdited)
    IN  IF Truthy(editing)
        THEN IF index # 0
             THEN [data EXCEPT ![index] = Spread(data[index], formData)]
             ELSE data
        ELSE Append(data, pagedCreated(pg, ls, formData))

pagedSubmitToast(pg, ls, editing) ==
    LET data == getData(ls, pg)
        IsEdited(item) == StrictEq(item.id, editing)
    IN  IF Truthy(editing) /\ FindIndex(data, IsEdited) = 0 THEN "none" ELSE "success"

PagedForms(pg) == IF pg = "orders" THEN OrderForms ELSE ProductForms

\* addNewBtn click.
AddNew ==
    /\ Paged(page)
    /\ editingId' = Null
    /\ dom' = Show(dom, "modalOverlay")
    /\ lastOp' = Ran("addNew", "none", FALSE, FALSE)
    /\ UNCHANGED << localStorage, currentPage, itemsPerPage, currentSort, deleteId, view,
                    headerSort, timeout >>
    /\ Untouched

\* modalClose, cancelBtn, viewModalClose, closeViewBtn, deleteModalClose,
\* cancelDeleteBtn and the clicks on an overlay: the modal loses 'show'.
CloseModal(overlay) ==
    /\ Paged(page)
    /\ dom' = Hide(dom, overlay)
    /\ lastOp' = Ran("close", "none", FALSE, FALSE)
    /\ UNCHANGED << localStorage, currentPage, itemsPerPage, currentSort, editingId,
                    deleteId, view, headerSort, timeout >>
    /\ Untouched

\* handleFormSubmit of orders.js and products.js.
HandleFormSubmit(f) ==
    /\ Paged(page)
    /\ UNCHANGED << currentPage, itemsPerPage, currentSort, editingId, deleteId,
                    headerSort, timeout >>
    /\ Untouched
    /\ LET formData == pagedFormData(page, localStorage, f)
       IN  IF pagedInvalid(page, formData)
           THEN /\ lastOp' = Ran("handleFormSubmit", "error", FALSE, FALSE)
                /\ UNCHANGED << localStorage, dom, view >>
           ELSE /\ Truthy(editingId) \/ CanCreate(localStorage, page)
                /\ localStorage' =
                      setData(localStorage, page,
                              pagedSubmitData(page, localStorage, editingId, formData))
                /\ dom' = Hide(dom, "modalOverlay")
                /\ lastOp' = Ran("handleFormSubmit", pagedSubmitToast(page, localStorage, editingId),
                                 ~Truthy(editingId), FALSE)
                /\ Rendered

\* viewItem(id).
ViewItem(id) ==
    /\ Paged(page)
    /\ LET data == getData(localStorage, page)
           IsItem(o) == StrictEq(o.id, id)
       IN  IF FindIndex(data, IsItem) = 0
           THEN /\ lastOp' = Ran("viewItem", "error", FALSE, FALSE)
                /\ UNCHANGED dom
           ELSE /\ lastOp' = Ran("viewItem", "none", FALSE, FALSE)
                /\ dom' = Show(dom, "viewModalOverlay")
    /\ UNCHANGED << localStorage, currentPage, itemsPerPage, currentSort, editingId,
                    deleteId, view, headerSort, timeout >>
    /\ Untouched

\* editItem(id) as it would be with an edit button in every row, whatever
\* the role.
EditItemAnyRole(id) ==
    /\ Paged(page)
    /\ LET data == getData(localStorage, page)
           IsItem(o) == StrictEq(o.id, id)
       IN  IF FindIndex(data, IsItem) = 0
           THEN /\ lastOp' = Ran("editItem", "error", FALSE, FALSE)
                /\ UNCHANGED << dom, editingId >>
           ELSE /\ lastOp' = Ran("editItem", "none", FALSE, FALSE)
                /\ editingId' = id
                /\ dom' = Show(dom, "modalOverlay")
    /\ UNCHANGED << localStorage, currentPage, itemsPerPage, currentSort, deleteId, view,
                    headerSort, timeout >>
    /\ Untouched

\* editItem(id): the edit button is rendered for the role 'admin' only.
EditItem(id) ==
    /\ Paged(page)
    /\ currentUserRole = S(AdminRole)
    /\ LET data == getData(localStorage, page)
           IsItem(o) == StrictEq(o.id, id)
       IN  IF FindIndex(data, IsItem) = 0
           THEN /\ lastOp' = Ran("editItem", "error", FALSE, FALSE)
                /\ UNCHANGED << dom, editingId >>
           ELSE /\ lastOp' = Ran("editItem", "none", FALSE, FALSE)
                /\ editingId' = id
                /\ dom' = Show(dom, "modalOverlay")
    /\ UNCHANGED << localStorage, currentPage, itemsPerPage, currentSort, deleteId, view,
                    headerSort, timeout >>
    /\ Untouched

\* deleteItem as it would be if it removed the record at once, without the
\* confirmation.
DeleteItemAtOnce(id) ==
    /\ Paged(page)
    /\ deleteId' = id
    /\ LET Kept(item) == ~StrictEq(item.id, id)
       IN  localStorage' =
               setData(localStorage, page, Filter(getData(localStorage, page), Kept))
    /\ lastOp' = Ran("deleteItem", "success", FALSE, FALSE)
    /\ UNCHANGED << dom, currentPage, itemsPerPage, currentSort, editingId, headerSort,
                    timeout >>
    /\ Untouched
    /\ Rendered

\* deleteItem(id): the id is kept for the confirmation, nothing is deleted.
\* The delete button is rendered for the role 'admin' only.
DeleteItem(id) ==
    /\ Paged(page)
    /\ currentUserRole = S(AdminRole)
    /\ deleteId' = id
    /\ dom' = Show(dom, "deleteModalOverlay")
    /\ lastOp' = Ran("deleteItem", "none", FALSE, FALSE)
    /\ UNCHANGED << localStorage, currentPage, itemsPerPage, currentSort, editingId, view,
                    headerSort, timeout >>
    /\ Untouched

\* The array a delete by data.splice(data.findIndex(...), 1) would write back:
\* for an id that is not there findIndex is -1 and the last record goes.
confirmDeleteSplice(data, id) ==
    LET IsIt(item) == StrictEq(item.id, id)
        index == FindIndex(data, IsIt)
    IN  IF index = 0
        THEN SubSeq(data, 1, Len(data) - 1)
        ELSE SubSeq(data, 1, index - 1) \o SubSeq(data, index + 1, Len(data))

\* The array confirmDelete writes back.
confirmDeleteData(data, id) ==
    LET Kept(item) == ~StrictEq(item.id, id)
    IN  Filter(data, Kept)

\* confirmDelete.
ConfirmDelete ==
    /\ Paged(page)
    /\ UNCHANGED << currentPage, itemsPerPage, currentSort, editingId, headerSort, timeout >>
    /\ Untouched
    /\ IF ~Truthy(deleteId)
       THEN /\ lastOp' = Ran("confirmDelete", "none", FALSE, FALSE)
            /\ UNCHANGED << localStorage, dom, view, deleteId >>
       ELSE /\ localStorage' =
                  setData(localStorage, page,
                          confirmDeleteData(getData(localStorage, page), deleteId))
            /\ dom' = Hide(dom, "deleteModalOverlay")
            /\ deleteId' = Null
            /\ lastOp' = Ran("confirmDelete", "success", FALSE, FALSE)
            /\ Rendered

(***************************************************************************)
(* clients.js, users.js, deliveries.js                                     *)
(***************************************************************************)
Simple(pg) == pg \in {"clients", "users", "deliveries"}

SimpleForms(pg) ==
    CASE pg = "clients" -> ClientForms
      [] pg = "users" -> UserForms
      [] pg = "deliveries" -> DeliveryForms
      [] OTHER -> {}

\* The record with the given id as the form submit looks it up (u.id == id).
LooseIndex(data, id) ==
    LET IsIt(item) == LooseEq(item.id, id)
    IN  FindIndex(data, IsIt)

\* x || 0
OrZero(x) == IF Truthy(x) THEN x ELSE N(0)

\* The record handleFormSubmit builds: entityId is the hidden field's value,
\* now the clock's new Date().toISOString().
clientData(ls, entityId, f) ==
    [ id |-> IF Truthy(entityId) THEN parseInt(entityId) ELSE generateId(ls, "clients"),
      name |-> f.name,
      email |-> f.email,
      phone |-> f.phone,
      type |-> f.type,
      city |-> f.city,
      orders |-> OrZero(parseInt(f.orders)),
      address |-> f.address ]

userData(ls, entityId, f, now) ==
    LET users == getData(ls, "users")
    IN  [ id |-> IF Truthy(entityId) THEN parseInt(entityId) ELSE generateId(ls, "users"),
          name |-> f.name,
          email |-> f.email,
          role |-> f.role,
          status |-> f.status,
          phone |-> f.phone,
          createdAt |-> IF Truthy(entityId)
                        THEN Get(users[LooseIndex(users, entityId)], "createdAt")
                        ELSE S(now) ]

deliveryData(ls, entityId, f, now) ==
    LET deliveries == getData(ls, "deliveries")
    IN  [ id |-> IF Truthy(entityId) THEN parseInt(entityId)
                 ELSE generateId(ls, "deliveries"),
          orderId |-> f.orderId,
          driver |-> f.driver,
          status |-> f.status,
          duration |-> f.duration,
          address |-> f.address,
          notes |-> f.notes,
          date |-> IF Truthy(entityId)
                   THEN Get(deliveries[LooseIndex(deliveries, entityId)], "date")
                   ELSE S(now) ]

simpleData(pg, ls, entityId, f, now) ==
    CASE pg = "clients" -> clientData(ls, entityId, f)
      [] pg = "users" -> userData(ls, entityId, f, now)
      [] pg = "deliveries" -> deliveryData(ls, entityId, f, now)

\* users.find(u => u.id == id).createdAt of a record that is not there: the
\* read of a property of undefined throws a TypeError.
simpleSubmitThrows(pg, ls, entityId) ==
    /\ pg \in {"users", "deliveries"}
    /\ Truthy(entityId)
    /\ LooseIndex(getData(ls, pg), entityId) = 0

\* The array handleFormSubmit saves.  An assignment at index -1 sets a
\* property JSON.stringify does not write, so the array is saved as read.
simpleSubmitData(pg, ls, entityId, f, now) ==
    LET data == getData(ls, pg)
        index == LooseIndex(data, entityId)
        record == simpleData(pg, ls, entityId, f, now)
    IN  IF Truthy(entityId)
        THEN IF index # 0 THEN [data EXCEPT ![index] = record] ELSE data
        ELSE Append(data, record)

\* openModal() from addNewBtn.
OpenModalNew ==
    /\ Simple(page)
    /\ dom' = Show([dom EXCEPT !["entityId"] = S(Empty)], "modalOverlay")
    /\ lastOp' = Ran("addNew", "none", FALSE, FALSE)
    /\ UNCHANGED << localStorage, currentPage, itemsPerPage, currentSort, editingId,
                    deleteId, view, headerSort, timeout >>
    /\ Untouched

\* closeModal.
CloseModalSimple ==
    /\ Simple(page)
    /\ dom' = Hide(dom, "modalOverlay")
    /\ lastOp' = Ran("close", "none", FALSE, FALSE)
    /\ UNCHANGED << localStorage, currentPage, itemsPerPage, currentSort, editingId,
                    deleteId, view, headerSort, timeout >>
    /\ Untouched

\* editClient(id), editUser(id), editDelivery(id).
EditSimple(id) ==
    /\ Simple(page)
    /\ LET data == getData(localStorage, page)
           IsItem(c) == StrictEq(c.id, id)
       IN  IF FindIndex(data, IsItem) # 0
           THEN dom' = Show([dom EXCEPT !["entityId"] = S(ToStringJS(id))], "modalOverlay")
           ELSE UNCHANGED dom
    /\ lastOp' = Ran("edit", "none", FALSE, FALSE)
    /\ UNCHANGED << localStorage, currentPage, itemsPerPage, currentSort, editingId,
                    deleteId, view, headerSort, timeout >>
    /\ Untouched

\* handleFormSubmit of clients.js, users.js and deliveries.js.
SubmitSimple(f, now) ==
    /\ Simple(page)
    /\ UNCHANGED << currentPage, itemsPerPage, currentSort, editingId, deleteId,
                    headerSort, timeout >>
    /\ Untouched
    /\ IF simpleSubmitThrows(page, localStorage, dom["entityId"])
       THEN /\ lastOp' = Ran("handleFormSubmit", "none", FALSE, TRUE)
            /\ UNCHANGED << localStorage, dom, view >>
       ELSE /\ Truthy(dom["entityId"]) \/ CanCreate(localStorage, page)
            /\ localStorage' =
                  setData(localStorage, page,
                          simpleSubmitData(page, localStorage, dom["entityId"], f, now))
            /\ dom' = Hide(dom, "modalOverlay")
            /\ lastOp' = Ran("handleFormSubmit", "none",
                             ~Truthy(dom["entityId"]), FALSE)
            /\ Rendered

\* deleteClient(id), deleteUser(id), deleteDelivery(id): confirmed is what
\* the confirm() dialog returned.
DeleteSimple(id, confirmed) ==
    /\ Simple(page)
    /\ UNCHANGED << currentPage, itemsPerPage, currentSort, editingId, deleteId, dom,
                    headerSort, timeout >>
    /\ Untouched
    /\ lastOp' = Ran(IF confirmed THEN "delete" ELSE "deleteCancelled", "none", FALSE, FALSE)
    /\ IF confirmed
       THEN /\ localStorage' =
                  setData(localStorage, page,
                          confirmDeleteData(getData(localStorage, page), id))
            /\ Rendered
       ELSE UNCHANGED << localStorage, view >>

(***************************************************************************)
(* Page load                                                               *)
(***************************************************************************)
Overlays == {"modalOverlay", "viewModalOverlay", "deleteModalOverlay"}

\* The elements of a page the scripts read and write, as the page loads.
InitDom(pg) ==
    CASE pg = "orders" ->
            [ searchInput |-> S(Empty), filterStatus |-> S(Empty), filterPayment |-> S(Empty),
              modalOverlay |-> B(FALSE),
              viewModalOverlay |-> B(FALSE), deleteModalOverlay |-> B(FALSE) ]
      [] pg = "products" ->
            [ searchInput |-> S(Empty), filterCategory |-> S(Empty),
              filterAvailability |-> S(Empty),
              modalOverlay |-> B(FALSE), viewModalOverlay |-> B(FALSE),
              deleteModalOverlay |-> B(FALSE) ]
      [] pg = "clients" ->
            [ searchInput |-> S(Empty), filterCity |-> S(Empty), filterType |-> S(Empty),
              entityId |-> S(Empty), modalOverlay |-> B(FALSE) ]
      [] pg = "users" ->
            [ searchInput |-> S(Empty), filterRole |-> S(Empty), filterStatus |-> S(Empty),
              entityId |-> S(Empty), modalOverlay |-> B(FALSE) ]
      [] pg = "deliveries" ->
            [ searchInput |-> S(Empty), filterStatus |-> S(Empty), filterDriver |-> S(Empty),
              entityId |-> S(Empty), modalOverlay |-> B(FALSE) ]

\* The session entry login.js writes.
SessionUser == [ name |-> S(Sample.Admin), role |-> S(AdminRole), email |-> S(AdminMail) ]

\* localStorage after initSampleData, the collection of the loaded page cut
\* to its first n records (what deletes on earlier visits leave).
SeededStore(pg, n) ==
    [ k \in Keys |->
        [ has |-> TRUE,
          arr |-> IF k = pg THEN SubSeq(SampleData(k), 1, n) ELSE SampleData(k) ] ]

SeedLens == 0..2

NoCall == [ fn |-> "none" ]

\* The variables of orders.js / products.js as the script is loaded, and the
\* first render of the page.
PageVars(pg, ls) ==
    /\ page = pg
    /\ localStorage = ls
    /\ currentPage = 1
    /\ itemsPerPage = 10
    /\ currentSort = [column |-> "id", direction |-> "asc"]
    /\ editingId = Null
    /\ deleteId = Null
    /\ dom = InitDom(pg)
    /\ \E eng \in Engines :
          view = render(pg, ls, eng, 1, 10, [column |-> "id", direction |-> "asc"],
                        InitDom(pg))
    /\ lastOp = Ran("load", "none", FALSE, FALSE)
    /\ headerSort = [column |-> "", direction |-> "asc"]
    /\ timeout = FALSE
    /\ user = SessionUser
    /\ currentUserRole = S(AdminRole)

PageLoad(pg, ls) ==
    /\ PageVars(pg, ls)
    /\ call = NoCall
    /\ ret = <<>>

Init ==
    \E pg \in Pages, n \in SeedLens : PageLoad(pg, SeededStore(pg, n))

Next ==
    \/ AddNew
    \/ \E o \in Overlays : CloseModal(o)
    \/ \E f \in PagedForms(page) : HandleFormSubmit(f)
    \/ \E id \in Ids : ViewItem(N(id))
    \/ \E id \in Ids : EditItem(N(id))
    \/ \E id \in Ids : DeleteItem(N(id))
    \/ ConfirmDelete
    \/ OpenModalNew
    \/ CloseModalSimple
    \/ \E id \in Ids : EditSimple(N(id))
    \/ \E f \in SimpleForms(page) : SubmitSimple(f, Today)
    \/ \E id \in Ids, confirmed \in BOOLEAN : DeleteSimple(N(id), confirmed)

Spec == Init /\ [][Next]_vars

(***************************************************************************)
(* The pipeline functions called on their own                              *)
(***************************************************************************)

\* Records of the shapes the forms and initSampleData store, four a page.
FilterPool(pg) ==
    CASE pg = "orders" ->
            SeedOrders \o
            << Spread(SeedOrders[1],
                      [id |-> N(11), clientName |-> S(Literal.ClientInconnu),
                       products |-> S(Typed.PizzaLower), status |-> S(Sample.EnAttente),
                       paymentStatus |-> S(Sample.EnAttente)]),
               Spread(SeedOrders[2], [id |-> N(3), notes |-> S(Empty)]) >>
      [] pg = "products" ->
            SeedProducts \o
            << Spread(SeedProducts[1], [id |-> N(3), name |-> S(Sample.Burger), stock |-> Null]),
               Spread(SeedProducts[2],
                      [id |-> N(4), name |-> S(Typed.PizzaLower), supplier |-> S(Empty)]) >>
      [] pg = "clients" ->
            SeedClients \o
            << [id |-> N(3), name |-> S(Sample.Jean), email |-> S(Empty), phone |-> S(Empty),
                type |-> S(Sample.Particulier), city |-> S(Sample.Lyon), orders |-> N(0),
                address |-> S(Empty)],
               Spread(SeedClients[1], [id |-> N(4), city |-> S(Sample.Lyon)]) >>
      [] pg = "users" ->
            SeedUsers \o
            << [id |-> N(3), name |-> S(Sample.Marie), email |-> S(Sample.MarieMail), role |-> S(Sample.Livreur),
                status |-> S(Sample.Inactif), phone |-> S(Sample.Phone), createdAt |-> S(Today)],
               Spread(SeedUsers[2], [id |-> N(4), email |-> S(Empty)]) >>
      [] pg = "deliveries" ->
            SeedDeliveries \o
            << [id |-> N(3), orderId |-> S(Typed.One), driver |-> S(Sample.Marie), status |-> S(Sample.Livree),
                duration |-> S(Typed.Twenty), address |-> S(Sample.Paris), notes |-> S(Empty),
                date |-> S(Today)],
               [id |-> N(4), orderId |-> S(Empty), driver |-> S(Empty),
                status |-> S(Sample.EnAttente), duration |-> S(Empty), address |-> S(Empty),
                notes |-> S(Empty), date |-> S(Today)] >>

\* The arrays handed to a filter: up to MaxLen records of the pool, each at
\* most once, in any order.
FilterInputs(pg) ==
    LET pool == FilterPool(pg)
        picks == UNION { [1..n -> 1..Len(pool)] : n \in 0..Min(MaxLen, Len(pool)) }
    IN  { [i \in 1..Len(pick) |-> pool[pick[i]]] :
              pick \in { q \in picks : \A i, j \in 1..Len(q) : i # j => q[i] # q[j] } }

\* What a user can type in the search box and choose in the two selects.
Searches == {Empty, Typed.Piz, Typed.PizUpper, Typed.One, Typed.Ma}

SelectA(pg) ==
    CASE pg = "orders" -> "filterStatus"
      [] pg = "products" -> "filterCategory"
      [] pg = "clients" -> "filterCity"
      [] pg = "users" -> "filterRole"
      [] pg = "deliveries" -> "filterStatus"

SelectB(pg) ==
    CASE pg = "orders" -> "filterPayment"
      [] pg = "products" -> "filterAvailability"
      [] pg = "clients" -> "filterType"
      [] pg = "users" -> "filterStatus"
      [] pg = "deliveries" -> "filterDriver"

OptionsA(pg) ==
    CASE pg = "orders" -> {Empty, Sample.Livree, Sample.EnAttente}
      [] pg = "products" -> {Empty, Sample.Pizza, Sample.Burger}
      [] pg = "clients" -> {Empty, Sample.Paris, Sample.Lyon}
      [] pg = "users" -> {Empty, Sample.Admin, Sample.Livreur}
      [] pg = "deliveries" -> {Empty, Sample.Livree, Sample.EnAttente}

OptionsB(pg) ==
    CASE pg = "orders" -> {Empty, Sample.Payee}
      [] pg = "products" -> {Empty, Literal.TrueText, Literal.FalseText}
      [] pg = "clients" -> {Empty, Sample.Particulier}
      [] pg = "users" -> {Empty, Sample.Actif}
      [] pg = "deliveries" -> {Empty, Sample.Jean}

FilterDoms(pg) ==
    { [InitDom(pg) EXCEPT !["searchInput"] = S(search), ![SelectA(pg)] = S(a),
                          ![SelectB(pg)] = S(b)] :
          search \in Searches, a \in OptionsA(pg), b \in OptionsB(pg) }

FilterCalls(pg) ==
    { [fn |-> "applyFilters", pg |-> pg, data |-> data, dom |-> d] :
          data \in FilterInputs(pg), d \in FilterDoms(pg) }

\* The arrays handed to sortData: records 1..n with the sorted column holding
\* a number, a text, null (a NaN that went through JSON) or nothing; the
\* duration and the address of a delivery hold the text typed in the form.
SortColumns == {"quantity", "clientName", "duration", "address"}

SortDirections == {"asc", "desc"}

SortKeys(column) ==
    CASE column = "quantity" -> {N(5), N(7), Null, Undef}
      [] column = "clientName" -> {S(<<"a">>), S(<<"b">>), S(<<"B">>), Undef}
      [] OTHER -> {S(<<"1", "0">>), S(<<"2">>), S(<<"1">>), S(Empty)}

SortRecord(i, column, key) ==
    IF key = Undef THEN [id |-> N(i)] ELSE Spread([id |-> N(i)], [f \in {column} |-> key])

SortInputs(column) ==
    { [i \in 1..Len(ks) |-> SortRecord(i, column, ks[i])] :
          ks \in UNION { [1..n -> SortKeys(column)] : n \in 0..MaxLen } }

SortCalls(column) ==
    { [fn |-> "sortData", data |-> data, column |-> column, direction |-> direction] :
          data \in SortInputs(column), direction \in SortDirections }

\* The test of orders.js and products.js calls toLowerCase on two fields of
\* the record, the second when the first does not hold the term, and with
\* orders toString on the id when neither does: the call throws when the
\* field is not a string (the id: is null or undefined).  With no search
\* term none of the fields is read.
filterThrows(pg, item, searchInput) ==
    LET Misses(field, searchTerm) ==
            ~includes(toLowerCase(Get(item, field).v), searchTerm)
        NoText(field) == Get(item, field).t # "str"
        Reads(first, second, searchTerm) ==
            /\ searchTerm # <<>>
            /\ \/ NoText(first)
               \/ /\ Misses(first, searchTerm)
                  /\ \/ NoText(second)
                     \/ /\ pg = "orders"
                        /\ Misses(second, searchTerm)
                        /\ Get(item, "id").t \in {"null", "undef"}
    IN  CASE pg = "orders" -> Reads("clientName", "products", toLowerCase(searchInput))
          [] pg = "products" -> Reads("name", "supplier", toLowerCase(searchInput))
          [] OTHER -> FALSE

\* applyFilters(data) with the page's search box and selects as given.
applyFilters(pg, data, d) ==
    CASE pg = "orders" -> applyFiltersOrders(data, d)
      [] pg = "products" -> applyFiltersProducts(data, d)
      [] OTHER -> applyFiltersSimple(pg, data, d)

ApplyFilters ==
    /\ call.fn = "applyFilters"
    /\ lastOp.name = "load"
    /\ IF \E i \in 1..Len(call.data) :
              filterThrows(call.pg, call.data[i], call.dom["searchInput"].v)
       THEN /\ ret' = <<>>
            /\ lastOp' = Ran("applyFilters", "none", FALSE, TRUE)
       ELSE /\ ret' = applyFilters(call.pg, call.data, call.dom)
            /\ lastOp' = Ran("applyFilters", "none", FALSE, FALSE)
    /\ UNCHANGED << localStorage, page, currentPage, itemsPerPage, currentSort, editingId,
                    deleteId, dom, view, headerSort, timeout, user, currentUserRole, call >>

SortData ==
    /\ call.fn = "sortData"
    /\ lastOp.name = "load"
    /\ \E eng \in Engines :
           LET Returned(arrays) == /\ ret' = arrays.return
                                   /\ call' = [call EXCEPT !.data = arrays.data]
           IN  Returned(sortDataArrays(eng, call.data, call.column, call.direction))
    /\ lastOp' = Ran("sortData", "none", FALSE, FALSE)
    /\ UNCHANGED << localStorage, page, currentPage, itemsPerPage, currentSort, editingId,
                    deleteId, dom, view, headerSort, timeout, user, currentUserRole >>

\* A filter is handed one of the arrays and criteria, sortData one of the
\* arrays, columns and directions.
FilterInit ==
    /\ PageVars("orders", SeededStore("orders", 0))
    /\ \E pg \in Pages : call \in FilterCalls(pg)
    /\ ret = <<>>

Filters == FilterInit /\ [][ApplyFilters]_vars

SortInit ==
    /\ PageVars("orders", SeededStore("orders", 0))
    /\ \E column \in SortColumns : call \in SortCalls(column)
    /\ ret = <<>>

Sorts == SortInit /\ [][SortData]_vars

\* The pipeline handed what localStorage may hold and no form has written:
\* records without a text field, or with a number or null in its place.
MalformedPool(pg) ==
    IF pg = "orders"
    THEN << SeedOrders[1],
            [id |-> N(2), products |-> S(Sample.Pizza), status |-> S(Sample.Livree)],
            [id |-> N(3), clientName |-> S(Sample.Marie), products |-> Null] >>
    ELSE << SeedProducts[1],
            [id |-> N(2), name |-> N(7), supplier |-> S(Sample.Roma)],
            [id |-> N(3), name |-> S(Sample.Burger), category |-> S(Sample.Burger)] >>

(***************************************************************************)
(* Two tabs of the orders page on one localStorage, each submitting the    *)
(* add form: handleFormSubmit reads the orders, generateId reads them      *)
(* again, setData writes the array back; the steps of the two tabs          *)
(* interleave, the steps of one tab keep their order                       *)
(***************************************************************************)
Tabs == {1, 2}

\* A valid form is submitted: let data = getData('orders') || [].
TabGetData(w, f) ==
    /\ call.fn = "tabs"
    /\ call.tab[w].pc = "idle"
    /\ ~orderInvalid(orderFormData(localStorage, f))
    /\ call' = [call EXCEPT !.tab[w].pc = "read",
                            !.tab[w].formData = orderFormData(localStorage, f),
                            !.tab[w].data = getData(localStorage, "orders"),
                            !.log = Append(@, << w, "getData" >>)]
    /\ UNCHANGED << localStorage, page, currentPage, itemsPerPage, currentSort, editingId,
                    deleteId, dom, view, lastOp, headerSort, timeout, user,
                    currentUserRole, ret >>

\* formData.id = generateId('orders'); formData.createdAt = ...; data.push(formData).
TabGenerateId(w) ==
    /\ call.fn = "tabs"
    /\ call.tab[w].pc = "read"
    /\ call' = [call EXCEPT !.tab[w].pc = "pushed",
                            !.tab[w].formData = pagedCreated("orders", localStorage, @),
                            !.tab[w].data = Append(@, pagedCreated("orders", localStorage,
                                                                   call.tab[w].formData)),
                            !.log = Append(@, << w, "generateId" >>)]
    /\ UNCHANGED << localStorage, page, currentPage, itemsPerPage, currentSort, editingId,
                    deleteId, dom, view, lastOp, headerSort, timeout, user,
                    currentUserRole, ret >>

\* setData('orders', data), the modal closes, the tab renders its table.
TabSetData(w) ==
    /\ call.fn = "tabs"
    /\ call.tab[w].pc = "pushed"
    /\ localStorage' = setData(localStorage, "orders", call.tab[w].data)
    /\ lastOp' = Ran("handleFormSubmit", "success", TRUE, FALSE)
    /\ \E eng \in Engines :
           call' = [call EXCEPT !.tab[w].pc = "done",
                                !.tab[w].view = render("orders", localStorage', eng, currentPage,
                                                       itemsPerPage, currentSort, dom),
                                !.log = Append(@, << w, "setData" >>)]
    /\ UNCHANGED << page, currentPage, itemsPerPage, currentSort, editingId, deleteId, dom,
                    view, headerSort, timeout, user, currentUserRole, ret >>

TabsInit ==
    /\ \E n \in SeedLens : PageVars("orders", SeededStore("orders", n))
    /\ call = [fn |-> "tabs", log |-> <<>>,
               tab |-> [w \in Tabs |-> [ pc |-> "idle", data |-> <<>>, formData |-> Null,
                                         view |-> Null ]]]
    /\ ret = <<>>

TwoTabs ==
    TabsInit /\ [][\E w \in Tabs : \/ \E f \in OrderForms : TabGetData(w, f)
                                    \/ TabGenerateId(w)
                                    \/ TabSetData(w)]_vars

(***************************************************************************)
(* The seed-on-load step of script.js, on the stores an earlier visit can   *)
(* have left: a key absent, a key storing [], a key storing its records    *)
(***************************************************************************)
\* initSampleData: a key is seeded when getData(key) is null, which it is
\* for an absent key only ([] is truthy).
initSampleData(ls) ==
    [ k \in Keys |-> IF ls[k].has THEN ls[k]
                     ELSE [has |-> TRUE, arr |-> JsonArray(SampleData(k))] ]

\* DOMContentLoaded of script.js: initSampleData(), then the page renders.
InitSampleData ==
    /\ call.fn = "initSampleData"
    /\ lastOp.name = "load"
    /\ localStorage' = initSampleData(localStorage)
    /\ lastOp' = Ran("initSampleData", "none", FALSE, FALSE)
    /\ UNCHANGED << currentPage, itemsPerPage, currentSort, editingId, deleteId, dom,
                    headerSort, timeout >>
    /\ Untouched
    /\ Rendered

\* generateId(dataKey), called on the store as it is.
GenerateId(dataKey) ==
    /\ call.fn = "initSampleData"
    /\ lastOp.name = "load"
    /\ ret' = << generateId(localStorage, dataKey) >>
    /\ call' = [fn |-> "generateId", dataKey |-> dataKey, raw |-> call.raw]
    /\ lastOp' = Ran("generateId", "none", FALSE, FALSE)
    /\ UNCHANGED << localStorage, page, currentPage, itemsPerPage, currentSort, editingId,
                    deleteId, dom, view, headerSort, timeout, user, currentUserRole >>

\* Each key is absent, stores [], stores its records, or stores records with
\* the ids 1 and 3, as the page loads.
LoadInit ==
    /\ LET Raw(kind, k) == CASE kind = "absent" -> [has |-> FALSE, arr |-> <<>>]
                              [] kind = "empty"  -> [has |-> TRUE, arr |-> <<>>]
                              [] kind = "gapped" ->
                                     [has |-> TRUE,
                                      arr |-> [SampleData(k) EXCEPT ![2].id = N(3)]]
                              [] OTHER           -> [has |-> TRUE, arr |-> SampleData(k)]
       IN  \E pg \in Pages, kinds \in [Keys -> {"absent", "empty", "seeded", "gapped"}] :
               /\ PageVars(pg, [k \in Keys |-> Raw(kinds[k], k)])
               /\ call = [fn |-> "initSampleData", raw |-> [k \in Keys |-> Raw(kinds[k], k)]]
    /\ ret = <<>>

Loads == LoadInit /\ [][InitSampleData \/ \E dataKey \in Keys : GenerateId(dataKey)]_vars

MalformedInit ==
    /\ PageVars("orders", SeededStore("orders", 0))
    /\ \/ \E pg \in {"orders", "products"} :
            \E d \in FilterDoms(pg),
               pick \in UNION { [1..n -> 1..3] : n \in 0..Min(MaxLen, 3) } :
               /\ \A i, j \in 1..Len(pick) : i # j => pick[i] # pick[j]
               /\ call = [fn |-> "applyFilters", pg |-> pg, dom |-> d,
                           data |-> [i \in 1..Len(pick) |-> MalformedPool(pg)[pick[i]]]]
       \/ call \in SortCalls("quantity")
    /\ ret = <<>>

Malformed == MalformedInit /\ [][ApplyFilters \/ SortData]_vars

(***************************************************************************)
(* The table controls of orders.js and products.js                         *)
(***************************************************************************)

\* What the controls offer: a search text, an option of the first select,
\* the options of rowsPerPage, the sortable headers.
ViewSearches == {Empty, Typed.Piz}

ViewOptions(pg) == IF pg = "orders" THEN {Empty, Sample.Livree} ELSE {Empty, Sample.Pizza}

RowsPerPageValues == {Typed.One, Typed.Two}

SortHeaders(pg) == IF pg = "orders" THEN {"id", "amount"} ELSE {"name"}

\* The change listeners of the filter selects.
FilterChangeKeepPage(select, value) ==
    /\ Paged(page)
    /\ dom' = [dom EXCEPT ![select] = S(value)]
    /\ lastOp' = Ran("filterChange", "none", FALSE, FALSE)
    /\ UNCHANGED << localStorage, currentPage, itemsPerPage, currentSort, editingId,
                    deleteId, headerSort, timeout >>
    /\ Untouched
    /\ Rendered

FilterChange(select, value) ==
    /\ Paged(page)
    /\ dom' = [dom EXCEPT ![select] = S(value)]
    /\ currentPage' = 1
    /\ lastOp' = Ran("filterChange", "none", FALSE, FALSE)
    /\ UNCHANGED << localStorage, itemsPerPage, currentSort, editingId, deleteId,
                    headerSort, timeout >>
    /\ Untouched
    /\ Rendered

\* A keystroke in the search box: debounce drops the pending timer and sets
\* a new one.
SearchInput(value) ==
    /\ Paged(page)
    /\ dom' = [dom EXCEPT !["searchInput"] = S(value)]
    /\ timeout' = TRUE
    /\ lastOp' = Ran("input", "none", FALSE, FALSE)
    /\ UNCHANGED << localStorage, currentPage, itemsPerPage, currentSort, editingId,
                    deleteId, view, headerSort >>
    /\ Untouched

\* The timer of debounce fires: the search listener runs.
SearchFire ==
    /\ Paged(page)
    /\ timeout
    /\ timeout' = FALSE
    /\ currentPage' = 1
    /\ lastOp' = Ran("search", "none", FALSE, FALSE)
    /\ UNCHANGED << localStorage, itemsPerPage, currentSort, editingId, deleteId, dom,
                    headerSort >>
    /\ Untouched
    /\ Rendered

\* The change listener of rowsPerPage.
RowsPerPageChange(value) ==
    /\ Paged(page)
    /\ itemsPerPage' = parseInt(S(value)).v
    /\ currentPage' = 1
    /\ lastOp' = Ran("rowsPerPage", "none", FALSE, FALSE)
    /\ UNCHANGED << localStorage, currentSort, editingId, deleteId, dom, headerSort,
                    timeout >>
    /\ Untouched
    /\ Rendered

\* The pages the buttons createPagination rendered lead to.
PageButtons(pagination) ==
    (IF pagination.prevDisabled THEN {} ELSE {pagination.currentPage - 1})
        \cup (IF pagination.startPage > 1 THEN {1} ELSE {})
        \cup pagination.startPage..pagination.endPage
        \cup (IF pagination.endPage < pagination.totalPages
              THEN {pagination.totalPages} ELSE {})
        \cup (IF pagination.nextDisabled THEN {} ELSE {pagination.currentPage + 1})

\* A click on a pagination button: the callback renderTable handed over.
GoToPage(p) ==
    /\ Paged(page)
    /\ p \in PageButtons(view.pagination)
    /\ p <= MaxPage
    /\ currentPage' = p
    /\ lastOp' = Ran("goToPage", "none", FALSE, FALSE)
    /\ UNCHANGED << localStorage, itemsPerPage, currentSort, editingId, deleteId, dom,
                    headerSort, timeout >>
    /\ Untouched
    /\ Rendered

\* A click on a th[data-sort]: initTableSorting updates the sort state of its
\* closure and calls back; the callback makes it the page's currentSort.
HeaderSort(column) ==
    /\ Paged(page)
    /\ headerSort' =
          IF headerSort.column = column
          THEN [headerSort EXCEPT !.direction = IF @ = "asc" THEN "desc" ELSE "asc"]
          ELSE [column |-> column, direction |-> "asc"]
    /\ currentSort' = headerSort'
    /\ lastOp' = Ran("sort", "none", FALSE, FALSE)
    /\ UNCHANGED << localStorage, currentPage, itemsPerPage, editingId, deleteId, dom,
                    timeout >>
    /\ Untouched
    /\ Rendered

\* The page's collection as earlier visits left it: records of the stored
\* shapes, not in the order of their ids.
ViewStore(pg) ==
    [SeededStore(pg, 0) EXCEPT
        ![pg] = [has |-> TRUE, arr |-> SubSeq(FilterPool(pg), 1, Min(MaxLen, 4))]]

ViewInit ==
    \E pg \in {"orders", "products"} : PageLoad(pg, ViewStore(pg))

ViewNext ==
    \/ \E value \in ViewOptions(page) : FilterChange(SelectA(page), value)
    \/ \E value \in ViewSearches : SearchInput(value)
    \/ SearchFire
    \/ \E value \in RowsPerPageValues : RowsPerPageChange(value)
    \/ \E p \in 1..MaxPage : GoToPage(p)
    \/ \E column \in SortHeaders(page) : HeaderSort(column)
    \/ \E id \in Ids : DeleteItem(N(id))
    \/ ConfirmDelete

View == ViewInit /\ [][ViewNext]_vars

(* createPagination called on its own: the item count, the page and the     *)
(* rows per page are the arguments of the call.                             *)
MaxItems == 14

CreatePagination ==
    /\ call.fn = "createPagination"
    /\ lastOp.name = "load"
    /\ ret' = << createPagination(call.totalItems, call.currentPage, call.itemsPerPage) >>
    /\ lastOp' = Ran("createPagination", "none", FALSE, FALSE)
    /\ UNCHANGED << localStorage, page, currentPage, itemsPerPage, currentSort,
                    editingId, deleteId, dom, view, headerSort, timeout, user,
                    currentUserRole, call >>

Pagination ==
    /\ \E totalItems \in 1..MaxItems, perPage \in {1, 2, 10} :
          \E cur \in 1..Ceil(totalItems, perPage) :
             /\ PageVars("orders", SeededStore("orders", 0))
             /\ call = [ fn |-> "createPagination", totalItems |-> totalItems,
                         currentPage |-> cur, itemsPerPage |-> perPage ]
             /\ ret = <<>>
    /\ [][CreatePagination]_vars

(* The orders and the products page with every control of the page in use:  *)
(* filters, search, rows per page, page buttons, sort headers, and the add, *)
(* edit and delete dialogs.                                                 *)
Controls ==
    /\ \E pg \in {"orders", "products"} : PageLoad(pg, SeededStore(pg, MaxId))
    /\ [][ \/ \E value \in ViewOptions(page) \ {Empty} :
                 FilterChange(SelectA(page), value)
           \/ \E value \in ViewSearches \ {Empty} : SearchInput(value)
           \/ SearchFire
           \/ RowsPerPageChange(Typed.One)
           \/ \E p \in 1..MaxPage : GoToPage(p)
           \/ \E column \in SortHeaders(page) \ {"amount"} : HeaderSort(column)
           \/ AddNew
           \/ \E f \in { g \in PagedForms(page) :
                             g[IF page = "orders" THEN "client" ELSE "name"]
                             = S(IF page = "orders" THEN Typed.One
                                                    ELSE Sample.Pizza) } :
                 HandleFormSubmit(f)
           \/ EditItem(N(MaxId))
           \/ DeleteItem(N(MaxId))
           \/ ConfirmDelete ]_vars

(***************************************************************************)
(* Typing in the search input of each of the five pages                    *)
(***************************************************************************)
\* The input listener of clients.js, users.js and deliveries.js is the render
\* function itself: no timer is set, the table is rendered on the keystroke.
SearchInputSimple(value) ==
    /\ Simple(page)
    /\ dom' = [dom EXCEPT !["searchInput"] = S(value)]
    /\ lastOp' = Ran("input", "none", FALSE, FALSE)
    /\ UNCHANGED << localStorage, currentPage, itemsPerPage, currentSort, editingId,
                    deleteId, headerSort, timeout >>
    /\ Untouched
    /\ Rendered

Typing ==
    Init /\ [][ \/ \E value \in ViewSearches \cup {Typed.Ma, Typed.One, Typed.PizzaLower} :
                       \/ SearchInput(value)
                       \/ SearchInputSimple(value)
                \/ SearchFire ]_vars

(***************************************************************************)
(* The orders and products pages under each role of the session entry      *)
(***************************************************************************)
\* initAuth at page load: window.currentUserRole = user.role, for the role
\* the stored session entry carries.
InitAuth(role) ==
    /\ lastOp.name = "load"
    /\ Paged(page)
    /\ user' = [user EXCEPT !.role = S(role)]
    /\ currentUserRole' = S(role)
    /\ lastOp' = Ran("initAuth", "none", FALSE, FALSE)
    /\ UNCHANGED << localStorage, page, currentPage, itemsPerPage, currentSort, editingId,
                    deleteId, dom, view, headerSort, timeout, call, ret >>

Roles ==
    Init /\ [][ \/ \E role \in {AdminRole, Sample.Admin, Sample.Livreur} : InitAuth(role)
                \/ AddNew
                \/ \E o \in Overlays : CloseModal(o)
                \/ \E f \in PagedForms(page) : HandleFormSubmit(f)
                \/ \E id \in Ids : ViewItem(N(id)) \/ EditItem(N(id)) \/ DeleteItem(N(id))
                \/ ConfirmDelete ]_vars

(***************************************************************************)
(* The KPI cards of the dashboard                                          *)
(***************************************************************************)
\* orders.reduce((sum, o) => sum + parseFloat(o.amount || 0), 0)
RECURSIVE reduceAmounts(_)
reduceAmounts(orders) ==
    IF orders = <<>> THEN N(0)
    ELSE LET Plus(sum, amount) == IF sum.t = "num" /\ amount.t = "num"
                                  THEN N(sum.v + amount.v) ELSE NaN
         IN  Plus(reduceAmounts(SubSeq(orders, 1, Len(orders) - 1)),
                  parseFloat(OrZero(Get(orders[Len(orders)], "amount"))))

\* The KPIs as they would be with the cancelled orders in the revenue.
updateKPIsAllOrders(ls) ==
    LET IsPending(o) == StrictEq(Get(o, "status"), S(Sample.EnAttente))
    IN  [ totalUsers |-> Len(getData(ls, "users")),
          totalOrders |-> Len(getData(ls, "orders")),
          totalRevenue |-> reduceAmounts(getData(ls, "orders")),
          pendingOrders |-> Len(SelectSeq(getData(ls, "orders"), IsPending)) ]

\* updateKPIs: the numbers behind the four cards (totalRevenue is the number
\* given to formatCurrency).
updateKPIs(ls) ==
    LET NotCancelled(o) == ~StrictEq(Get(o, "status"), S(Sample.Annulee))
        IsPending(o) == StrictEq(Get(o, "status"), S(Sample.EnAttente))
    IN  [ totalUsers |-> Len(getData(ls, "users")),
          totalOrders |-> Len(getData(ls, "orders")),
          totalRevenue |-> reduceAmounts(SelectSeq(getData(ls, "orders"), NotCancelled)),
          pendingOrders |-> Len(SelectSeq(getData(ls, "orders"), IsPending)) ]

\* The dashboard loads and fills its cards.
UpdateKPIs ==
    /\ lastOp.name = "load"
    /\ page' = "dashboard"
    /\ ret' = << updateKPIs(localStorage) >>
    /\ lastOp' = Ran("updateKPIs", "none", FALSE, FALSE)
    /\ UNCHANGED << localStorage, currentPage, itemsPerPage, currentSort, editingId,
                    deleteId, dom, view, headerSort, timeout, user, currentUserRole, call >>

\* The stored orders: up to three orders, each with one of the three statuses
\* and an amount that is a number, null or missing.
DashboardInit ==
    /\ LET WithAmount(order, amount) ==
               IF amount = Undef THEN [f \in DOMAIN order \ {"amount"} |-> order[f]]
               ELSE [order EXCEPT !.amount = amount]
           Order(id, status, amount) ==
               WithAmount([SeedOrders[1] EXCEPT !.id = N(id), !.status = S(status)], amount)
       IN  \E n \in 0..3 :
             \E statuses \in [1..n -> {Sample.Livree, Sample.Annulee, Sample.EnAttente}],
                amounts \in [1..n -> {N(20), N(5), Null, Undef}] :
                 PageVars("orders",
                          [SeededStore("orders", 0) EXCEPT
                              !["orders"].arr = [i \in 1..n |-> Order(i, statuses[i], amounts[i])]])
    /\ call = NoCall
    /\ ret = <<>>

Dashboard == DashboardInit /\ [][UpdateKPIs]_vars

(***************************************************************************)
(* The session entry 'user' of localStorage: logout, then the login page,  *)
(* whose form is handled by script.js (initLoginPage) or by login.js       *)
(***************************************************************************)
DEMO_USERS ==
    << [ email |-> S(AdminMail), password |-> S(Literal.Password), name |-> S(Sample.Admin),
         role |-> S(AdminRole) ] >>

\* logout(): the entry is removed, the window goes to login.html.
Logout ==
    /\ user # Null
    /\ page # "login"
    /\ user' = Null
    /\ page' = "login"
    /\ lastOp' = Ran("logout", "none", FALSE, FALSE)
    /\ UNCHANGED << localStorage, currentPage, itemsPerPage, currentSort, editingId,
                    deleteId, dom, view, headerSort, timeout, currentUserRole, call, ret >>

\* The submit listener of initLoginPage: login(email, password) stores the
\* entry of DEMO_USERS it finds, as it is; the dashboard then loads.
Login(email, password) ==
    /\ page = "login"
    /\ call' = [fn |-> "login", email |-> email, password |-> password]
    /\ LET Matches(u) == u.email = S(email) /\ u.password = S(password)
           Found(index) ==
               IF index # 0
               THEN /\ user' = JsonRecord(DEMO_USERS[index])
                    /\ page' = "dashboard"
                    /\ currentUserRole' = DEMO_USERS[index].role
                    /\ lastOp' = Ran("login", "none", FALSE, FALSE)
               ELSE /\ lastOp' = Ran("login", "error", FALSE, FALSE)
                    /\ UNCHANGED << user, page, currentUserRole >>
       IN  Found(FindIndex(DEMO_USERS, Matches))
    /\ UNCHANGED << localStorage, currentPage, itemsPerPage, currentSort, editingId,
                    deleteId, dom, view, headerSort, timeout, ret >>

\* The submit listener of login.js: the credentials are compared with the
\* literals, and {name, role, email} is stored.
LoginFormSubmit(email, password) ==
    /\ page = "login"
    /\ call' = [fn |-> "loginForm", email |-> email, password |-> password]
    /\ IF email = AdminMail /\ password = Literal.Password
       THEN /\ user' = [ name |-> S(Sample.Admin), role |-> S(AdminRole), email |-> S(email) ]
            /\ page' = "dashboard"
            /\ currentUserRole' = S(AdminRole)
            /\ lastOp' = Ran("loginForm", "none", FALSE, FALSE)
       ELSE /\ lastOp' = Ran("loginForm", "error", FALSE, FALSE)
            /\ UNCHANGED << user, page, currentUserRole >>
    /\ UNCHANGED << localStorage, currentPage, itemsPerPage, currentSort, editingId,
                    deleteId, dom, view, headerSort, timeout, ret >>

Session ==
    Init /\ [][ \/ Logout
                \/ \E email \in {AdminMail, Typed.Ma}, password \in {Literal.Password, Typed.One} :
                       \/ Login(email, password)
                       \/ LoginFormSubmit(email, password) ]_vars

(***************************************************************************)
(* Properties                                                              *)
(***************************************************************************)
PageData == getData(localStorage, page)

\* C1: in every state reachable through creates, updates and confirmed
\* deletes, the records of each stored collection (users, clients, products,
\* orders, deliveries) have pairwise distinct positive integer ids.
C1_DistinctPositiveIds ==
    \A k \in Keys :
        LET data == getData(localStorage, k)
        IN  /\ \A i \in 1..Len(data) :
                  /\ "id" \in DOMAIN data[i]
                  /\ data[i].id.t = "num"
                  /\ data[i].id.v \in Nat
                  /\ data[i].id.v > 0
            /\ \A i, j \in 1..Len(data) : i # j => data[i].id # data[j].id

\* A create has just appended a record to a collection that held one.
C1_Witness ==
    /\ lastOp.name = "handleFormSubmit"
    /\ lastOp.gen
    /\ Len(PageData) = 2

\* The fields the edit form of a page supplies.
FormFields(pg) ==
    CASE pg = "orders" ->
            {"clientId", "clientName", "products", "quantity", "amount", "status",
             "paymentStatus", "address", "notes"}
      [] pg = "products" -> {"name", "category", "price", "stock", "supplier", "available"}
      [] pg = "clients" -> {"name", "email", "phone", "type", "city", "orders", "address"}
      [] pg = "users" -> {"name", "email", "role", "status", "phone"}
      [] pg = "deliveries" -> {"orderId", "driver", "status", "duration", "address", "notes"}

\* Where the record the open edit form belongs to stands in the collection
\* (0 when no edit form is open or the record is gone).
EditedIndex ==
    IF Paged(page)
    THEN LET IsEdited(item) == item.id = editingId IN FindIndex(PageData, IsEdited)
    ELSE IF Truthy(dom["entityId"]) THEN LooseIndex(PageData, dom["entityId"]) ELSE 0

\* A step in which the edit form of an existing record is submitted and saved.
EditSubmitted ==
    /\ EditedIndex # 0
    /\ lastOp'.name = "handleFormSubmit"
    /\ lastOp'.toast # "error"
    /\ ~lastOp'.threw
    /\ ~lastOp'.gen

\* C2: for every entity type, submitting the edit form of an existing record
\* changes only the fields the form supplies: the record keeps its id, its
\* position and every field the form does not supply (its creation date, for
\* one), and no other record of the collection changes.
C2_EditKeepsUnsuppliedFields ==
    [][ EditSubmitted =>
          LET before == PageData
              after == getData(localStorage', page)
              i == EditedIndex
          IN  /\ Len(after) = Len(before)
              /\ \A j \in 1..Len(before) : j # i => after[j] = before[j]
              /\ after[i].id = before[i].id
              /\ \A f \in DOMAIN before[i] \ FormFields(page) :
                    f \in DOMAIN after[i] /\ after[i][f] = before[i][f] ]_vars

\* A form whose required fields are missing or invalid: for an order the
\* client, the products or the amount, for a product the name, the category
\* or a price that is no number.
FormFailsValidation(pg, f) ==
    IF pg = "orders"
    THEN \/ DigitPrefix(f.client.v) = <<>>
         \/ f.product.v = <<>>
         \/ DigitPrefix(f.amount.v) = <<>>
    ELSE \/ \A i \in 1..Len(f.name.v) : f.name.v[i] = " "
         \/ f.category.v = <<>>
         \/ DigitPrefix(f.price.v) = <<>>

\* C3: a create or update submission that fails validation aborts: the
\* stored collections are what they were, no id is allocated and an error
\* notification is raised.
C3_InvalidSubmitAborts ==
    [][ \A f \in PagedForms(page) :
            (FormFailsValidation(page, f) /\ HandleFormSubmit(f)) =>
                /\ localStorage' = localStorage
                /\ lastOp'.toast = "error"
                /\ ~lastOp'.gen ]_vars

\* The edit form of a stored order or product has just been refused.
C3_Witness ==
    /\ Paged(page)
    /\ EditedIndex # 0
    /\ lastOp.name = "handleFormSubmit"
    /\ lastOp.toast = "error"

\* C4: a record leaves a stored collection only in a confirm step for the id
\* a delete request made pending (on the pages that ask through confirm(),
\* in a delete of that id that was confirmed); a delete request alone, or one
\* whose dialog is cancelled, leaves the stored collections unchanged, and a
\* confirm with no pending id changes nothing.
C4_DeleteOnlyOnConfirm ==
    [][ /\ \A k \in Keys :
              \A i \in 1..Len(getData(localStorage, k)) :
                  LET id == getData(localStorage, k)[i].id
                  IN  id \notin IdsOf(getData(localStorage', k)) =>
                          /\ k = page
                          /\ IF Paged(page)
                             THEN deleteId = id /\ lastOp'.name = "confirmDelete"
                             ELSE DeleteSimple(id, TRUE)
        /\ lastOp'.name \in {"deleteItem", "close", "deleteCancelled"} =>
              localStorage' = localStorage
        /\ (lastOp'.name = "confirmDelete" /\ ~Truthy(deleteId)) =>
              UNCHANGED << localStorage, view, dom, deleteId >> ]_vars

\* The first of two stored orders or products has just been removed by a
\* confirmation.
C4_Witness ==
    /\ Paged(page)
    /\ lastOp.name = "confirmDelete"
    /\ lastOp.toast = "success"
    /\ IdsOf(PageData) = {N(2)}

\* A confirmed delete of id: confirmDelete with id pending, or deleteClient,
\* deleteUser, deleteDelivery of id with the dialog accepted.
ConfirmedDeleteOf(id) ==
    IF Paged(page) THEN deleteId = id /\ ConfirmDelete ELSE DeleteSimple(id, TRUE)

CreateSubmitted == lastOp'.name = "handleFormSubmit" /\ lastOp'.gen

\* The entities that track a creation date, and a record that carries one.
TracksCreationDate(pg) == pg \in {"users", "clients", "orders", "deliveries"}

HasCreationDate(r) ==
    \E f \in {"createdAt", "date"} : f \in DOMAIN r /\ r[f].t = "str" /\ r[f].v # <<>>

\* The greatest id of a collection, 0 for an empty one.
MaxIdOf(data) ==
    IF data = <<>> THEN 0
    ELSE CHOOSE m \in {data[i].id.v : i \in 1..Len(data)} :
             \A i \in 1..Len(data) : data[i].id.v <= m

\* C6: a successful create leaves the stored records as they were, in their
\* order, and appends one record whose id is the greatest stored id plus one
\* (1 for an empty collection) and which carries a creation date when the
\* entity is a user, a client, an order or a delivery.
C6_CreateAppendsStamped ==
    [][ CreateSubmitted =>
            LET before == PageData
                after == getData(localStorage', page)
            IN  /\ Len(after) = Len(before) + 1
                /\ SubSeq(after, 1, Len(before)) = before
                /\ after[Len(after)].id = N(MaxIdOf(before) + 1)
                /\ TracksCreationDate(page) => HasCreationDate(after[Len(after)]) ]_vars

\* The fields a page searches and the <<field, select>> pairs it filters by.
SearchableFields(pg) ==
    CASE pg = "orders" -> {"clientName", "products", "id"}
      [] pg = "products" -> {"name", "supplier"}
      [] pg = "clients" -> {"name", "email"}
      [] pg = "users" -> {"name", "email"}
      [] pg = "deliveries" -> {"address", "orderId"}

EqualityFilters(pg) ==
    CASE pg = "orders" -> {<<"status", "filterStatus">>, <<"paymentStatus", "filterPayment">>}
      [] pg = "products" ->
            {<<"category", "filterCategory">>, <<"available", "filterAvailability">>}
      [] pg = "clients" -> {<<"city", "filterCity">>, <<"type", "filterType">>}
      [] pg = "users" -> {<<"role", "filterRole">>, <<"status", "filterStatus">>}
      [] pg = "deliveries" -> {<<"status", "filterStatus">>, <<"driver", "filterDriver">>}

\* term occurs in text at some offset, letters compared without their case.
ContainsIgnoringCase(text, term) ==
    \E k \in 0..(Len(text) - Len(term)) :
        \A i \in 1..Len(term) : LowerOf[text[k + i]] = LowerOf[term[i]]

\* The record matches every criterion that is not empty.
MatchesCriteria(pg, r, d) ==
    /\ d["searchInput"].v # <<>> =>
          \E f \in SearchableFields(pg) \cap DOMAIN r :
              ContainsIgnoringCase(ToStringJS(r[f]), d["searchInput"].v)
    /\ \A e \in EqualityFilters(pg) :
          d[e[2]].v # <<>> => e[1] \in DOMAIN r /\ ToStringJS(r[e[1]]) = d[e[2]].v

\* The place of a record in an array of distinct records, 0 when absent.
PlaceIn(data, r) ==
    IF \E i \in 1..Len(data) : data[i] = r
    THEN CHOOSE i \in 1..Len(data) : data[i] = r
    ELSE 0

\* C7: the output of a filter holds a record of the input if and only if the
\* record matches every non-empty criterion (the search term as a substring
\* of a searchable field, case ignored; each chosen select by equality); it
\* holds nothing else, no record twice, the records in their order of the
\* input; with every criterion empty it is the input.
C7_FilterIffAllCriteria ==
    lastOp.name = "applyFilters" =>
        /\ \A i \in 1..Len(call.data) :
              PlaceIn(ret, call.data[i]) # 0 <=>
                  MatchesCriteria(call.pg, call.data[i], call.dom)
        /\ \A j \in 1..Len(ret) : PlaceIn(call.data, ret[j]) # 0
        /\ \A j, k \in 1..Len(ret) :
              j < k => PlaceIn(call.data, ret[j]) < PlaceIn(call.data, ret[k])
        /\ (/\ call.dom["searchInput"].v = <<>>
            /\ \A e \in EqualityFilters(call.pg) : call.dom[e[2]].v = <<>>) =>
              ret = call.data

\* Three orders filtered by "PIZ" and the status Livrée: one of the two with a
\* pizza is kept.
C7_Witness ==
    /\ lastOp.name = "applyFilters"
    /\ call.pg = "orders"
    /\ call.dom["searchInput"].v = Typed.PizUpper
    /\ call.dom["filterStatus"].v = Sample.Livree
    /\ Len(call.data) = 3
    /\ Len(ret) = 1

\* The last handler ended in a render of the table.
RenderedLast ==
    \/ lastOp.name \in {"load", "filterChange", "search", "rowsPerPage", "goToPage", "sort"}
    \/ lastOp.name = "confirmDelete" /\ lastOp.toast = "success"

\* The stored records that pass the filter as the controls stand, sorted by
\* the engine as currentSort says.
FilteredSorted(eng) ==
    LET filtered == applyFilters(page, PageData, dom)
    IN  IF currentSort.column # ""
        THEN sortData(eng, filtered, currentSort.column, currentSort.direction)
        ELSE filtered

\* C8: with n records filtered and sorted, page size s > 0 and page number
\* p >= 1, the rows of the rendered page are the records from place
\* (p-1)*s + 1 on, one after the other, at most s of them and as many as
\* there are up to s; there is no row when (p-1)*s >= n, and the page number
\* the render shows is p, not the last page that has rows.
C8_PageIsRunFromOffset ==
    (Paged(page) /\ RenderedLast) =>
        \E eng \in Engines :
            LET seq == FilteredSorted(eng)
                n == Len(seq)
                s == itemsPerPage
                p == currentPage
                rows == view.tableBody
            IN  /\ s > 0 /\ p >= 1
                /\ Len(rows) <= s
                /\ \A k \in 1..Len(rows) :
                      (p - 1) * s + k <= n /\ rows[k] = seq[(p - 1) * s + k]
                /\ Len(rows) < s => (p - 1) * s + Len(rows) >= n
                /\ (p - 1) * s >= n => rows = <<>>
                /\ view.pagination.currentPage = p

\* A delete on the last of the pages of one row: the page number stays
\* where no record is left and the table is empty, the first page is not.
C8_Witness ==
    /\ Paged(page)
    /\ lastOp.name = "confirmDelete" /\ lastOp.toast = "success"
    /\ itemsPerPage = 1
    /\ currentPage = 4
    /\ Len(PageData) = 3
    /\ applyFilters(page, PageData, dom) = PageData
    /\ view.tableBody = <<>>

\* The size records of seq that follow the first start records, or as many
\* as there are.
RunFrom(seq, start, size) ==
    LET rest == Len(seq) - start
        len == IF rest < 0 THEN 0 ELSE IF rest < size THEN rest ELSE size
    IN  [k \in 1..len |-> seq[start + k]]

\* C9: a render of the orders or products table filters, then sorts, then
\* cuts the page: the rows are the page of the sorted sequence of the records
\* that match the criteria, and the count the pagination controls get (and
\* the number of pages they make of it) is the number of those records, not
\* of the stored ones.
C9_FilterSortPaginate ==
    (Paged(page) /\ RenderedLast) =>
        LET Passes(r) == MatchesCriteria(page, r, dom)
            passed == SelectSeq(PageData, Passes)
            start == (currentPage - 1) * itemsPerPage
        IN  /\ view.totalItems = Len(passed)
            /\ view.pagination.totalPages =
                  (Len(passed) + itemsPerPage - 1) \div itemsPerPage
            /\ \E eng \in Engines :
                  view.tableBody =
                      RunFrom(IF currentSort.column # ""
                              THEN sortData(eng, passed, currentSort.column,
                                            currentSort.direction)
                              ELSE passed,
                              start, itemsPerPage)

\* Two of the stored records pass the filter; sorted downwards by a header,
\* the second of them is the one row of page 2.
C9_Witness ==
    /\ Paged(page)
    /\ RenderedLast
    /\ currentSort.direction = "desc"
    /\ itemsPerPage = 1
    /\ currentPage = 2
    /\ Len(PageData) = 4
    /\ view.totalItems = 2
    /\ Len(view.tableBody) = 1

\* The sort key of a record as the comparison is meant to take it: a missing,
\* null or empty key as the empty text, a text without its case, a text of
\* digits as its number.
SortKeyOf(r, column) ==
    LET key == Get(r, column)
    IN  CASE key.t \in {"undef", "null", "nan"} -> S(Empty)
          [] key.t = "str" ->
                IF key.v # <<>> /\ DigitPrefix(key.v) = key.v
                THEN N(DigitsValue(key.v))
                ELSE S(toLowerCase(key.v))
          [] OTHER -> key

\* C10: sortData is stable: of two records of the input whose sort keys
\* compare equal, the one that comes first in the input comes first in the
\* output, in either direction.
C10_SortDataStable ==
    lastOp.name = "sortData" =>
        \A i, j \in 1..Len(call.data) :
            (/\ i < j
             /\ SortKeyOf(call.data[i], call.column) = SortKeyOf(call.data[j], call.column)) =>
                PlaceIn(ret, call.data[i]) < PlaceIn(ret, call.data[j])

\* The columns whose values are numbers, and a sort key as text.
NumericFields == {"quantity", "duration"}

KeyText(record, column) == toLowerCase(ToStringJS(record[column]))

\* C11: sortData orders a numeric field by the numbers its values parse to
\* and any other field by the case-insensitive lexicographic order of its
\* values: "10", "2", "1" ascending come out as "1", "2", "10" in a numeric
\* field and as "1", "10", "2" in a field that is not numeric.
C11_NumericOrLexicographic ==
    (/\ lastOp.name = "sortData"
     /\ call.direction = "asc"
     /\ \A i \in 1..Len(call.data) :
            /\ call.column \in DOMAIN call.data[i]
            /\ call.data[i][call.column].t \in {"str", "num"}) =>
        \A i \in 1..(Len(ret) - 1) :
            IF /\ call.column \in NumericFields
               /\ parseFloat(ret[i][call.column]) # NaN
               /\ parseFloat(ret[i + 1][call.column]) # NaN
            THEN parseFloat(ret[i][call.column]).v <= parseFloat(ret[i + 1][call.column]).v
            ELSE ~StrLess(KeyText(ret[i + 1], call.column), KeyText(ret[i], call.column))

\* C12: a record without the sort field is ordered as if the field held the
\* empty string: in ascending order it comes before every record whose
\* field is a non-empty string, wherever it stood in the input.
C12_MissingSortsAsEmpty ==
    (lastOp.name = "sortData" /\ call.direction = "asc") =>
        \A i, j \in 1..Len(ret) :
            (/\ call.column \notin DOMAIN ret[i]
             /\ call.column \in DOMAIN ret[j]
             /\ ret[j][call.column].t = "str"
             /\ ret[j][call.column].v # <<>>) => i < j

\* C13: no step of the query pipeline throws, whatever records the array
\* holds: not with a record whose clientName, products, name or supplier is
\* missing or is no string while a search term is typed.
C13_PipelineNeverThrows ==
    lastOp.name \in {"applyFilters", "sortData"} => ~lastOp.threw

\* The number of places of a sequence that hold a given record.
Occurrences(data, record) == Cardinality({ i \in 1..Len(data) : data[i] = record })

\* C14: sortData never modifies the sequence it is given: across every call
\* the argument holds the same records in the same order as before, and the
\* returned sequence is a permutation of the argument.
C14_SortDataLeavesInput ==
    [][ (lastOp.name = "load" /\ lastOp'.name = "sortData")
        => /\ call'.data = call.data
           /\ Len(ret') = Len(call.data)
           /\ \A i \in 1..Len(call.data) :
                  Occurrences(ret', call.data[i]) = Occurrences(call.data, call.data[i]) ]_vars

\* A sortData call returned its records in another order than the argument's.
C14_Witness ==
    /\ lastOp.name = "sortData"
    /\ Len(call.data) >= 2
    /\ ret # call.data

\* The name the clients collection gives for a client id, or the placeholder.
ClientNameOf(clients, clientId) ==
    IF \E i \in 1..Len(clients) : clients[i].id = clientId
    THEN clients[CHOOSE i \in 1..Len(clients) : clients[i].id = clientId].name
    ELSE S(Literal.ClientInconnu)

\* The order a successful submit has just written: the appended one for a
\* create, the one with the edited id for an update.
SavedOrder(orders, created, editing) ==
    IF created THEN orders[Len(orders)]
    ELSE orders[CHOOSE i \in 1..Len(orders) : orders[i].id = editing]

\* C15: on every successful order create or update the stored clientName is
\* the name of the client whose id is the submitted clientId at that moment,
\* and the placeholder 'Client inconnu' when no client has that id; the order
\* is saved and no error is raised.
C15_ClientNameFromClients ==
    [][ (page = "orders" /\ lastOp'.name = "handleFormSubmit" /\ lastOp'.toast = "success")
        => LET Named(saved) ==
                   saved.clientName = ClientNameOf(getData(localStorage, "clients"),
                                                   saved.clientId)
           IN  /\ ~lastOp'.threw
               /\ Named(SavedOrder(getData(localStorage', "orders"), lastOp'.gen, editingId)) ]_vars

\* An order was saved for client 3, which no client is, under the placeholder.
C15_Witness ==
    /\ page = "orders"
    /\ lastOp.name = "handleFormSubmit"
    /\ lastOp.toast = "success"
    /\ \A i \in 1..Len(getData(localStorage, "clients")) :
           getData(localStorage, "clients")[i].id # N(3)
    /\ \E i \in 1..Len(getData(localStorage, "orders")) :
           /\ getData(localStorage, "orders")[i].clientId = N(3)
           /\ getData(localStorage, "orders")[i].clientName = S(Literal.ClientInconnu)

\* C16: creating, updating or deleting a record of one collection leaves every
\* other stored collection unchanged: no step on a page changes a collection
\* other than the page's own (no cascade, no refresh of denormalized copies).
C16_OtherCollectionsUnchanged ==
    [][ \A k \in Keys \ {page} : localStorage'[k] = localStorage[k] ]_vars

\* A client was deleted and an order still carries its id and its name.
C16_Witness ==
    /\ page = "clients"
    /\ lastOp.name = "delete"
    /\ \E i \in 1..Len(getData(localStorage, "orders")) :
           /\ \A j \in 1..Len(getData(localStorage, "clients")) :
                  getData(localStorage, "clients")[j].id
                      # getData(localStorage, "orders")[i].clientId
           /\ getData(localStorage, "orders")[i].clientName = S(Sample.Marie)

\* A store in which every absent key stores an empty array instead.
AbsentAsEmpty(ls) ==
    [ k \in Keys |-> IF ls[k].has THEN ls[k] ELSE [has |-> TRUE, arr |-> <<>>] ]

\* C17: no reader distinguishes an absent key from a key that stores an empty
\* array: the seed-on-load step leaves the same records under every key as it
\* leaves when each absent key stores [] instead.
C17_AbsentIsEmpty ==
    lastOp.name = "initSampleData"
    => \A k \in Keys :
           getData(localStorage, k) = getData(initSampleData(AbsentAsEmpty(call.raw)), k)

\* The place of a tab's step in the order in which the steps were taken.
StepOf(w, step) == CHOOSE i \in 1..Len(call.log) : call.log[i] = << w, step >>

\* Both tabs read the orders, and allocated their id, before either wrote.
ReadBeforeEitherWrote ==
    \A w \in Tabs, other \in Tabs : StepOf(w, "generateId") < StepOf(other, "setData")

\* One tab's handler ran to completion before the other's began.
RanToCompletion ==
    \E w \in Tabs, other \in Tabs : StepOf(w, "setData") < StepOf(other, "getData")

\* The tab that wrote last.
LastWriter == CHOOSE w \in Tabs : \A other \in Tabs : StepOf(other, "setData") <= StepOf(w, "setData")

\* C18: two creates on one collection that both read it before either writes
\* it back allocate the same id, and the later write leaves the records that
\* were read plus its own record only: the record of the earlier write is
\* gone. Two creates of which one runs to completion before the other begins
\* get different ids and are both stored.
C18_ConcurrentCreatesCollide ==
    (call.fn = "tabs" /\ \A w \in Tabs : call.tab[w].pc = "done")
    => LET Collide(first, second, stored) ==
               /\ ReadBeforeEitherWrote
                  => /\ first.formData.id = second.formData.id
                     /\ stored = call.tab[LastWriter].data
                     /\ Len(stored) = Len(first.data)
               /\ RanToCompletion
                  => /\ first.formData.id # second.formData.id
                     /\ \E i, j \in 1..Len(stored) :
                            i # j /\ stored[i] = first.formData /\ stored[j] = second.formData
       IN  Collide(call.tab[1], call.tab[2], getData(localStorage, "orders"))

\* Both tabs read before either wrote, and the record the first writer stored
\* is no longer among the orders.
C18_Witness ==
    /\ call.fn = "tabs"
    /\ \A w \in Tabs : call.tab[w].pc = "done"
    /\ ReadBeforeEitherWrote
    /\ \E w \in Tabs :
           \A i \in 1..Len(getData(localStorage, "orders")) :
               getData(localStorage, "orders")[i] # call.tab[w].formData

\* C19: a search-input keystroke never runs the pipeline immediately: the
\* step of a keystroke leaves the rendered table as it is and leaves one
\* re-render pending.
C19_KeystrokeOnlySchedules ==
    [][ lastOp'.name = "input" => (view' = view /\ timeout') ]_vars

\* No record of the page's collection has the id.
NotStored(id) ==
    \A i \in 1..Len(getData(localStorage, page)) : ~LooseEq(getData(localStorage, page)[i].id, id)

\* The step submits an edit form whose record is no longer stored.
StaleSubmit ==
    /\ lastOp'.name = "handleFormSubmit"
    /\ \/ Paged(page) /\ Truthy(editingId) /\ NotStored(editingId)
       \/ Simple(page) /\ Truthy(dom["entityId"]) /\ NotStored(dom["entityId"])

\* The step views, edits or deletes by an id that no stored record has.
UnknownId ==
    \/ \E id \in Ids :
          /\ NotStored(N(id))
          /\ ViewItem(N(id)) \/ EditItem(N(id)) \/ EditSimple(N(id)) \/ DeleteSimple(N(id), TRUE)
    \/ lastOp'.name = "confirmDelete" /\ Truthy(deleteId) /\ NotStored(deleteId)

\* C20: a view, edit, delete or edit submit whose record id is not found is
\* recovered locally: the stored collections and the view state are as before,
\* the user is notified of the error, and no error leaves the handler.
C20_NotFoundRecovered ==
    [][ (StaleSubmit \/ UnknownId)
        => /\ localStorage' = localStorage
           /\ view' = view
           /\ dom' = dom
           /\ lastOp'.toast = "error"
           /\ ~lastOp'.threw ]_vars

\* C21: generateId returns 1 when the named collection is empty or absent,
\* and otherwise the maximum id of the collection plus 1; gaps below the
\* maximum are never filled.
C21_GenerateIdIsMaxPlusOne ==
    lastOp.name = "generateId"
    => LET Next1(stored) ==
               IF ~stored.has \/ Len(stored.arr) = 0 THEN ret = << N(1) >>
               ELSE /\ ret[1].t = "num"
                    /\ \E i \in 1..Len(stored.arr) : ret[1].v = stored.arr[i].id.v + 1
                    /\ \A i \in 1..Len(stored.arr) : ret[1].v > stored.arr[i].id.v
       IN  Next1(localStorage[call.dataKey])

\* generateId was called on a collection with the ids 1 and 3 and returned 4.
C21_Witness ==
    /\ lastOp.name = "generateId"
    /\ Len(localStorage[call.dataKey].arr) = 2
    /\ localStorage[call.dataKey].arr[1].id = N(1)
    /\ localStorage[call.dataKey].arr[2].id = N(3)
    /\ ret = << N(4) >>

\* C22: in every state reachable through the product form, every stored
\* product has a price that is a number >= 0 and a stock that is an integer
\* >= 0.
C22_PriceAndStockInRange ==
    \A i \in 1..Len(getData(localStorage, "products")) :
        LET InRange(product) ==
                /\ product.price.t = "num"
                /\ product.price.v >= 0
                /\ product.stock.t = "num"
                /\ product.stock.v \in Nat
        IN  InRange(getData(localStorage, "products")[i])

\* C23: the stored session entry user is absent or an object with exactly the
\* fields name, role and email, never the password; it is written only by a
\* login with the hard-coded credentials and removed only by logout.
C23_SessionHoldsNoPassword ==
    [][ /\ user' = Null \/ DOMAIN user' = {"name", "role", "email"}
        /\ (user' # user /\ user' # Null)
              => /\ lastOp'.name \in {"login", "loginForm"}
                 /\ call'.email = AdminMail
                 /\ call'.password = Literal.Password
        /\ (user' # user /\ user' = Null) => lastOp'.name = "logout" ]_vars

\* C24: an existing order or product is updated or deleted only while the
\* session role is 'admin': under any other role every step on the orders or
\* products page leaves each stored record in place and as it was.
C24_OnlyAdminChangesRecords ==
    [][ (Paged(page) /\ currentUserRole # S(AdminRole))
        => \A i \in 1..Len(getData(localStorage, page)) :
               /\ i <= Len(getData(localStorage', page))
               /\ getData(localStorage', page)[i] = getData(localStorage, page)[i] ]_vars

\* Under a role other than 'admin' a record was created next to a stored one.
C24_Witness ==
    /\ Paged(page)
    /\ currentUserRole # S(AdminRole)
    /\ lastOp.name = "handleFormSubmit"
    /\ lastOp.gen
    /\ Len(getData(localStorage, page)) >= 2

\* The sum of the amounts of the orders that are not cancelled, a missing or
\* null amount counting as 0.
RECURSIVE RevenueOf(_)
RevenueOf(orders) ==
    IF orders = <<>> THEN 0
    ELSE LET Counted(order) ==
                 IF order.status = S(Sample.Annulee) THEN 0
                 ELSE IF "amount" \in DOMAIN order /\ order.amount.t = "num"
                      THEN order.amount.v ELSE 0
         IN  Counted(Head(orders)) + RevenueOf(Tail(orders))

\* C25: the revenue KPI is the sum of amount over exactly the stored orders
\* whose status is not 'Annulée', a missing amount counting as 0; the pending
\* KPI is the number of orders whose status is 'En attente'.
C25_RevenueAndPending ==
    lastOp.name = "updateKPIs"
    => LET Cards(kpis, orders) ==
               /\ kpis.totalRevenue = N(RevenueOf(orders))
               /\ kpis.pendingOrders =
                      Cardinality({ i \in 1..Len(orders) : orders[i].status = S(Sample.EnAttente) })
       IN  Cards(ret[1], getData(localStorage, "orders"))

\* The cards were filled from a cancelled order, a pending order and an
\* order without amount.
C25_Witness ==
    /\ lastOp.name = "updateKPIs"
    /\ \E i, j, k \in 1..Len(getData(localStorage, "orders")) :
           /\ getData(localStorage, "orders")[i].status = S(Sample.Annulee)
           /\ "amount" \in DOMAIN getData(localStorage, "orders")[i]
           /\ getData(localStorage, "orders")[i].amount = N(20)
           /\ getData(localStorage, "orders")[j].status = S(Sample.EnAttente)
           /\ "amount" \notin DOMAIN getData(localStorage, "orders")[k]
    /\ ret[1].pendingOrders >= 1

\* C26: clicking the header of the table's current sort column flips the
\* direction, and clicking any other header selects that column ascending;
\* this holds from page load on, when the table is sorted by id ascending.
C26_HeaderClickTogglesOrSelects ==
    [][ lastOp'.name = "sort"
        => IF currentSort'.column = currentSort.column
           THEN currentSort'.direction # currentSort.direction
           ELSE currentSort'.direction = "asc" ]_vars

\* C27: the previous and next controls never move currentPage outside
\* 1..totalPages: in every state reachable through page navigation, filter
\* changes and confirmed deletes, currentPage is within 1..totalPages (page 1
\* of an empty table), previous is disabled at page 1 and next is disabled
\* whenever currentPage >= totalPages.
C27_CurrentPageInRange ==
    LET Within(pagination) ==
            /\ currentPage >= 1
            /\ currentPage <= Max(1, pagination.totalPages)
            /\ currentPage = 1 => pagination.prevDisabled
            /\ pagination.currentPage >= pagination.totalPages => pagination.nextDisabled
    IN  Within(view.pagination)

\* C28: no id is allocated twice in the lifetime of a collection, so a soft
\* reference to a deleted record never comes to point at a different record:
\* the order a seeded delivery refers to by orderId is, while an order with
\* that id is stored, the seeded order and not one created since.
C28_IdsNeverReused ==
    \A i \in 1..Len(getData(localStorage, "deliveries")) :
        \A j \in 1..Len(getData(localStorage, "orders")) :
            LET Same(delivery, order) ==
                    order.id = delivery.orderId
                    => order.createdAt = SeedOrders[delivery.orderId.v].createdAt
            IN  Same(getData(localStorage, "deliveries")[i], getData(localStorage, "orders")[j])

(* C29: on the orders and products pages the listener of the search input   *)
(* (once its delay has run out), of a filter select and of the rows-per-page *)
(* select sets currentPage to 1 and the table is then rendered for page 1,   *)
(* while a sort header click, a create, an update and a confirmed delete     *)
(* leave currentPage and itemsPerPage as they were.                          *)
C29_ResetsAndFrames ==
    [][ /\ lastOp'.name \in {"search", "filterChange", "rowsPerPage"}
           => /\ currentPage' = 1
              /\ view'.pagination.currentPage = 1
              /\ view'.pagination.prevDisabled
        /\ lastOp'.name \in {"sort", "handleFormSubmit", "confirmDelete"}
           => /\ currentPage' = currentPage
              /\ itemsPerPage' = itemsPerPage ]_vars

(* A filter changed while page 2 was shown, and a record created while page  *)
(* 2 was shown with one row per page.                                        *)
C29_Witness ==
    /\ lastOp.name = "handleFormSubmit"
    /\ lastOp.gen
    /\ currentPage = 2
    /\ itemsPerPage = 1
    /\ dom[SelectA(page)] # S(Empty)

(* C30: for totalItems >= 1, itemsPerPage >= 1 and currentPage within        *)
(* 1..totalPages, createPagination renders the page buttons                  *)
(* startPage..endPage with 1 <= startPage <= currentPage <= endPage <=       *)
(* totalPages, the window holds exactly min(5, totalPages) buttons, and the  *)
(* info text range satisfies start <= end <= totalItems.                     *)
C30_WindowAndInfo ==
    lastOp.name = "createPagination"
    => LET Window(p, totalPages) ==
               /\ p.totalPages = totalPages
               /\ 1 <= p.startPage
               /\ p.startPage <= call.currentPage
               /\ call.currentPage <= p.endPage
               /\ p.endPage <= totalPages
               /\ Cardinality(p.startPage..p.endPage) = Min(5, totalPages)
               /\ p.infoStart <= p.infoEnd
               /\ p.infoEnd <= call.totalItems
       IN  Window(ret[1], Ceil(call.totalItems, call.itemsPerPage))

(* The last of more than five pages: the window is moved back to end there. *)
C30_Witness ==
    /\ lastOp.name = "createPagination"
    /\ ret[1].totalPages > 5
    /\ call.currentPage = ret[1].totalPages
    /\ ret[1].startPage = ret[1].totalPages - 4

====
